---- MODULE Spec2Model ----
(***************************************************************************)
(* A model of the journaling application's service layer:                  *)
(*   - the AI orchestration service (services/ai): option merging, the     *)
(*     two provider dispatch loops with retry and backoff, and the         *)
(*     best-effort persistence of the user/AI exchange;                    *)
(*   - generateConversationTitle, as a pure function on character          *)
(*     sequences;                                                          *)
(*   - the voice-note and entry services over the hosted database and      *)
(*     object storage (createVoiceNote, deleteVoiceNote, deleteEntry).     *)
(*   - toggleLike of the messages service, called by click handlers that   *)
(*     may overlap;                                                        *)
(*   - what each domain-service operation does with an error of the hosted *)
(*     service, and the instances the ServiceFactory hands out;            *)
(*   - the main process's handler of update-env-vars;                      *)
(*   - buildEntriesContext, as a pure function on lists of entries.        *)
(* Every awaited call to a hosted service is one step; the hosted service  *)
(* may answer with success or with an error at each of them.               *)
(***************************************************************************)
EXTENDS Integers, Sequences, FiniteSets, TLC

(***************************************************************************)
(* Bounds of the model                                                     *)
(***************************************************************************)
\* largest retry count a caller configures
MaxRetries == 6
\* longest prompt handed to generateConversationTitle
MaxPromptLen == 53
\* voice notes created in one run
MaxVoiceNotes == 2
\* toggleLike calls made in one run
MaxToggles == 3
\* click handlers that can be in flight at the same time
MaxHandlers == 2
\* domain-service operations called in one run
MaxServiceCalls == 2
\* requests made to the service factory in one run
MaxRequests == 3
\* update-env-vars messages sent in one run
MaxUpdates == 3
\* entries handed to buildEntriesContext
MaxEntries == 3
\* latest createdAt of an entry
MaxTime == 3

\* createExchange calls made in one run
MaxExchanges == 3

\* prompts submitted on a chat screen in one run
MaxSubmissions == 4

\* changes of the authentication state after the first check
MaxAuthEvents == 3

(***************************************************************************)
(* JavaScript values                                                       *)
(***************************************************************************)
Undefined == "undefined"
Null == "null"

\* An options object is a function from the keys that are present to their
\* values; a key that is absent reads as undefined.
NoOptions == [k \in {} |-> Undefined]

Has(o, k) == k \in DOMAIN o

Get(o, k) == IF k \in DOMAIN o THEN o[k] ELSE Undefined

\* { ...a, ...b }
Spread(a, b) == [k \in (DOMAIN a) \cup (DOMAIN b) |-> IF k \in DOMAIN b THEN b[k] ELSE a[k]]

\* truthiness of a string-valued or absent field
Truthy(v) == v \notin {Undefined, Null, ""}

\* a || b on string-valued fields
Or(a, b) == IF Truthy(a) THEN a ELSE b

Min(a, b) == IF a <= b THEN a ELSE b

(***************************************************************************)
(* State                                                                   *)
(***************************************************************************)
VARIABLES
  call,           \* the entry point invoked and its arguments
  env,            \* envVars, the signed-in user
  openaiClient,   \* the lazily created OpenAI client exists
  pc,             \* position of the invocation
  finalOptions,   \* chat: defaults merged with the caller's options
  attempt,        \* loop variable of the dispatch loop
  maxRetries,     \* options.retries || 2
  lastError,      \* the error caught by the latest failed attempt
  response,       \* what the provider dispatch returned
  result,         \* what the entry point returned to its caller
  outcome,        \* how the dispatch function ended: returned or threw
  calls,          \* requests that reached a provider backend
  backend,        \* the backend endpoints that received a request
  delays,         \* the backoff delays waited, in order
  lastFailure,    \* the error raised in the most recent failed attempt
  saved,          \* progress of the persistence step
  target,         \* id of the conversation the exchange is written to
  conversations,  \* table conversations
  messages        \* table messages, in creation order

chatVars == <<call, env, openaiClient, pc, finalOptions, attempt, maxRetries,
              lastError, response, result, outcome, calls, backend, delays,
              lastFailure, saved, target, conversations, messages>>

VARIABLES
  titlePrompt,    \* generateConversationTitle: prompt
  titleEntries,   \* generateConversationTitle: entries, or Undefined
  title,          \* the generated title
  titleDone       \* the function has been applied

titleVars == <<titlePrompt, titleEntries, title, titleDone>>

VARIABLES
  entries,        \* table entries: the ids of the rows
  voicenotes,     \* table voicenotes: rows [id, entryId, fileId]
  storage,        \* bucket voicenotes: the paths of the stored objects
  nextId,         \* the next uuid
  vop,            \* the service operation in progress and its arguments
  vpc,            \* its position
  cur,            \* deleteVoiceNote: the row read by getVoiceNote
  pending,        \* deleteEntry: the listed voice notes not yet visited
  uploaded,       \* createVoiceNote: the fileId the upload returned
  vresult,        \* what the operation returned
  dvresult,       \* what the latest deleteVoiceNote returned
  issued,         \* the storage removals issued by the operation, and their outcome
  before          \* the bucket's objects when the operation began

voiceVars == <<entries, voicenotes, storage, nextId, vop, vpc, cur, pending, uploaded,
               vresult, dvresult, issued, before>>

VARIABLES
  isLiked,        \* table messages: the isLiked column of each row, by id
  likeCall,       \* toggleLike: the calls in flight, one per handler
  likeCalls,      \* toggleLike calls made so far
  likeInitial,    \* isLiked before the first call
  toggled,        \* per message, the calls that returned data
  overlapped      \* two calls have been in flight at the same time

likeVars == <<isLiked, likeCall, likeCalls, likeInitial, toggled, overlapped>>

VARIABLES
  svcCall,        \* the domain-service operation called
  svcPc,          \* idle, called, returned or thrown
  svcValue,       \* the form of the value the operation returned
  svcCalls        \* operations called so far

svcVars == <<svcCall, svcPc, svcValue, svcCalls>>

VARIABLES
  factoryFile,    \* which of the two ServiceFactory sources is loaded
  backendProvider,\* window.env.BACKEND_PROVIDER
  cached,         \* the factory's fields: the instance held for a service, 0 for null
  constructed,    \* per service, the instances constructed so far
  returned,       \* the latest answer of the factory
  requests        \* requests made so far

factoryVars == <<factoryFile, backendProvider, cached, constructed, returned, requests>>

VARIABLES
  ipcQueue,       \* update-env-vars messages sent and not yet received
  processEnv,     \* process.env of the main process
  envFile,        \* the content of the local env file
  mainWindow,     \* the renderer window exists
  rendererGot,    \* the env-vars-updated messages sent to the window, in order
  ipcPc,          \* position of the update-env-vars handler
  ipcCur,         \* the envVars of the message being handled
  lastUpdate,     \* what the handler has done for that message, in order
  updates         \* update-env-vars messages sent so far

ipcVars == <<ipcQueue, processEnv, envFile, mainWindow, rendererGot, ipcPc, ipcCur,
             lastUpdate, updates>>

VARIABLES
  ctxEntries,     \* buildEntriesContext: the array the caller passes, as it is now
  ctxInput,       \* the array as it was when the function was called
  ctxText,        \* the text returned, line by line
  ctxDone         \* the function has been applied

ctxVars == <<ctxEntries, ctxInput, ctxText, ctxDone>>

VARIABLES
  exMessages,     \* createExchange: the authors of the conversation's messages, in creation order
  exCall,         \* the createExchange calls in flight, one per handler
  exCalls,        \* createExchange calls made so far
  exInTurn        \* no call has overlapped another and no insert has failed

exVars == <<exMessages, exCall, exCalls, exInTurn>>

VARIABLES
  ecConversations, \* entry chat: the conversations of contextType "entries" about the entry
  ecCurrent,       \* currentConversation of EntryAIScreen: <<id>>, or Absent for null
  ecPc,            \* position of fetchEntry or handleSubmit
  ecSubmissions,   \* prompts submitted so far
  ecLookupFailed   \* a getConversationByEntryId call has ended in an error

ecVars == <<ecConversations, ecCurrent, ecPc, ecSubmissions, ecLookupFailed>>

VARIABLES
  aiTable,        \* AI screen: the user's conversations, rows [id, updatedAt]
  aiCurrent,      \* currentConversation of AIScreen: <<id>>, or Absent for null
  aiPc,           \* position of handleSubmit
  aiLoads,        \* loadCurrentConversation calls in flight
  aiSubmissions,  \* prompts submitted so far
  aiStarted,      \* <<id>> of the conversation created for the first prompt submitted
                  \* without a current conversation; <<NoConversation>> when it was not saved
  aiAppended      \* the conversations the later prompts were written to

aiVars == <<aiTable, aiCurrent, aiPc, aiLoads, aiSubmissions, aiStarted, aiAppended>>

VARIABLES
  authUser,       \* AuthContext: user (Null, a user without an id, or a user id)
  authLoading,    \* AuthContext: loading
  authChecking,   \* a checkUser call is awaiting getCurrentUser
  authCheckDone,  \* withAuth: initialCheckDone
  authView,       \* what the wrapper's latest render returned
  authPhase,      \* the wrapper has to render, has to run its effect, or is settled
  authDeps,       \* the loading and user the effect last ran with
  authNavigated,  \* the path the latest run of the effect navigated to, or "none"
  authEvents      \* changes of the authentication state so far

authVars == <<authUser, authLoading, authChecking, authCheckDone, authView, authPhase,
              authDeps, authNavigated, authEvents>>

VARIABLES
  recOpen,        \* VoiceNoteRecorder: the open prop
  recPermission,  \* a getUserMedia request is pending
  recorder,       \* mediaRecorderRef.current: "none", or the recorder's state
  recCaptured,    \* isRecording as the cleanup of the effect in force sees it
  recStopEvent,   \* a stop event of the recorder is queued
  recTimer,       \* the interval of timerRef is running
  isRecording,    \* state isRecording
  duration,       \* state duration
  recordingBlob,  \* state recordingBlob is a blob
  isPlaying,      \* state isPlaying
  playbackPosition, \* state playbackPosition
  recCompleted,   \* what onRecordingComplete was last invoked with
  recRecorded     \* a recording has been started and then stopped

recVars == <<recOpen, recPermission, recorder, recCaptured, recStopEvent, recTimer,
             isRecording, duration, recordingBlob, isPlaying, playbackPosition,
             recCompleted, recRecorded>>

VARIABLES
  ceDraft,        \* CreateEntryPage: the entries row of the draft: "none", "draft", "final", "deleted"
  ceCreate,       \* the createEntry request of the page: pending, inserted, answered, refused
  ceEntryId,      \* state entryId is set
  ceVoiceNotes,   \* voicenotes rows of the draft
  cePage,         \* the page: open, in one of its handlers, or left
  ceDelete,       \* what deleteEntry did when handleCancel called it
  ceLoading,      \* state loading
  ceError,        \* state error: "none" for null
  ceTitle,        \* state title, trimmed
  ceSavedTitle    \* column title of the entries row

draftVars == <<ceDraft, ceCreate, ceEntryId, ceVoiceNotes, cePage, ceDelete, ceLoading, ceError,
              ceTitle, ceSavedTitle>>

\* what the AI service never touches
nonChatVars == <<titleVars, voiceVars, likeVars, svcVars, factoryVars, ipcVars, ctxVars,
                 exVars, ecVars, aiVars, authVars, recVars, draftVars>>

nonTitleVars == <<chatVars, voiceVars, likeVars, svcVars, factoryVars, ipcVars, ctxVars,
                  exVars, ecVars, aiVars, authVars, recVars, draftVars>>

nonVoiceVars == <<chatVars, titleVars, likeVars, svcVars, factoryVars, ipcVars, ctxVars,
                  exVars, ecVars, aiVars, authVars, recVars, draftVars>>

nonLikeVars == <<chatVars, titleVars, voiceVars, svcVars, factoryVars, ipcVars, ctxVars,
                 exVars, ecVars, aiVars, authVars, recVars, draftVars>>

nonSvcVars == <<chatVars, titleVars, voiceVars, likeVars, factoryVars, ipcVars, ctxVars,
                exVars, ecVars, aiVars, authVars, recVars, draftVars>>

nonFactoryVars == <<chatVars, titleVars, voiceVars, likeVars, svcVars, ipcVars, ctxVars,
                    exVars, ecVars, aiVars, authVars, recVars, draftVars>>

nonIpcVars == <<chatVars, titleVars, voiceVars, likeVars, svcVars, factoryVars, ctxVars,
                exVars, ecVars, aiVars, authVars, recVars, draftVars>>

nonCtxVars == <<chatVars, titleVars, voiceVars, likeVars, svcVars, factoryVars, ipcVars,
                exVars, ecVars, aiVars, authVars, recVars, draftVars>>

nonExVars == <<chatVars, titleVars, voiceVars, likeVars, svcVars, factoryVars, ipcVars,
               ctxVars, ecVars, aiVars, authVars, recVars, draftVars>>

\* what the deletion of an entries row leaves alone outside its own service
nonEntryRowVars == <<call, env, openaiClient, pc, finalOptions, attempt, maxRetries, lastError,
                     response, result, outcome, calls, backend, delays, lastFailure, saved,
                     target, messages, titleVars, likeVars, svcVars, factoryVars, ipcVars,
                     ctxVars, exVars, ecVars, aiVars, authVars, recVars, draftVars>>

nonEcVars == <<chatVars, titleVars, voiceVars, likeVars, svcVars, factoryVars, ipcVars,
               ctxVars, exVars, aiVars, authVars, recVars, draftVars>>

nonAiVars == <<chatVars, titleVars, voiceVars, likeVars, svcVars, factoryVars, ipcVars,
               ctxVars, exVars, ecVars, authVars, recVars, draftVars>>

nonAuthVars == <<chatVars, titleVars, voiceVars, likeVars, svcVars, factoryVars, ipcVars,
                 ctxVars, exVars, ecVars, aiVars, recVars, draftVars>>

nonRecVars == <<chatVars, titleVars, voiceVars, likeVars, svcVars, factoryVars, ipcVars,
                ctxVars, exVars, ecVars, aiVars, authVars, draftVars>>

nonDraftVars == <<chatVars, titleVars, voiceVars, likeVars, svcVars, factoryVars, ipcVars,
                  ctxVars, exVars, ecVars, aiVars, authVars, recVars>>

vars == <<chatVars, titleVars, voiceVars, likeVars, svcVars, factoryVars, ipcVars, ctxVars,
          exVars, ecVars, aiVars, authVars, recVars, draftVars>>

(***************************************************************************)
(* Program constants                                                       *)
(***************************************************************************)
\* defaultOptions.retries and the fallback of options.retries || 2
DefaultRetries == 2
\* first backoff delay, in ms
BackoffBase == 1000
\* largest backoff delay, in ms
BackoffCap == 8000
\* a prompt longer than this is truncated
TitleMaxLength == 50
\* characters of the prompt kept by the truncation
TitleKeep == 47

(***************************************************************************)
(* Values of the model                                                     *)
(***************************************************************************)
NoResponse == [success |-> FALSE, text |-> Undefined, error |-> "pending"]

NoError == [axios |-> FALSE, message |-> Undefined, dataError |-> Undefined]

\* new Error(message)
PlainError(m) == [axios |-> FALSE, message |-> m, dataError |-> Undefined]

\* what axios.post rejects with: an HTTP error status whose body may carry an
\* error field, or no response at all
AxiosErrors ==
  { [axios |-> TRUE, message |-> "Request failed with status code 500", dataError |-> Undefined],
    [axios |-> TRUE, message |-> "Request failed with status code 404", dataError |-> "model not found"],
    [axios |-> TRUE, message |-> "Network Error", dataError |-> Undefined] }

\* what openai.chat.completions.create rejects with
OpenAIErrors ==
  { PlainError("500 status code (no body)"), PlainError("Connection error.") }

ProviderText == "provider answer"

Prompts == {"Summarize", "What did I do?"}

ExistingConversation ==
  [id |-> "c1", userId |-> "u1", contextType |-> "general", contextReference |-> Null,
   provider |-> "deepseek"]

NewConversationId == "c2"

ExistingMessages ==
  << [conversationId |-> "c1", author |-> "user", content |-> "Hello"],
     [conversationId |-> "c1", author |-> "ai", content |-> "Hi"] >>


(***************************************************************************)
(* Inputs                                                                  *)
(***************************************************************************)
\* An optional argument is <<>> when the caller leaves it out and <<v>> when
\* the caller passes v.
Absent == <<>>

\* the options object holding key k when the caller passes it
Field(k, v) == IF v = Absent THEN NoOptions ELSE (k :> v[1])

\* Options that exercise the dispatch: every retry count, each provider tag.
DispatchOptions ==
  { Field("provider", p) @@ Field("retries", r) :
      p \in {Absent, <<"ollama">>, <<"deepseek">>},
      r \in {Absent} \cup {<<n>> : n \in 0..MaxRetries} }

\* Options that exercise the persistence step: saving on or off, a conversation
\* id that exists ("c1"), one that does not ("c9") or none, a context of the
\* caller's own.
PersistOptions ==
  { Field("provider", p) @@ Field("retries", r) @@ Field("saveConversation", s)
      @@ Field("conversationId", c) @@ Field("contextType", t) @@ Field("contextReference", t) :
      p \in {Absent, <<"deepseek">>},
      r \in {Absent, <<1>>},
      s \in {Absent, <<TRUE>>, <<FALSE>>},
      c \in {Absent, <<"c1">>, <<"c9">>},
      t \in {Absent, <<"custom">>} }

EntryPoints == {"chat", "chatWithEntry", "continueConversation"}

\* the entry points that fetch or receive the journal entries themselves
ContextEntryPoints == {"newChat", "chatWithEntries", "analyzeEntries"}

\* Options that name a provider or none, with one or the default retry count.
ProviderOptions ==
  { Field("provider", p) @@ Field("retries", r) :
      p \in {Absent, <<"ollama">>, <<"deepseek">>}, r \in {Absent, <<1>>} }

\* the invocations of the model
Calls ==
  { [entryPoint |-> "chat", prompt |-> "Summarize", options |-> o,
     entryId |-> "e1", conversationId |-> "c1"] : o \in DispatchOptions }
  \cup
  { [entryPoint |-> ep, prompt |-> p, options |-> o, entryId |-> "e1", conversationId |-> "c1"] :
      ep \in EntryPoints, p \in Prompts, o \in PersistOptions }
  \cup
  { [entryPoint |-> "continueConversation", prompt |-> "Summarize", options |-> NoOptions,
     entryId |-> "e1", conversationId |-> "c9"] }
  \cup
  { [entryPoint |-> ep, prompt |-> "Summarize", options |-> o, entryId |-> "e1",
     conversationId |-> "c1"] : ep \in ContextEntryPoints, o \in ProviderOptions }

\* envVars and the session: the default provider tag, whether the DeepSeek URL
\* and key are set, the signed-in user (Null when there is none)
Environments ==
  [defaultProvider : {"ollama", "deepseek"}, deepseekConfigured : BOOLEAN, user : {"u1", Null}]

(***************************************************************************)
(* The parts of the state a specification leaves at rest                   *)
(***************************************************************************)
\* the AI service is not invoked
ChatOff ==
  /\ call = [entryPoint |-> "none", prompt |-> "", options |-> NoOptions,
             entryId |-> "e1", conversationId |-> "c1"]
  /\ env = [defaultProvider |-> "ollama", deepseekConfigured |-> FALSE, user |-> Null]
  /\ openaiClient = FALSE
  /\ pc = "off"
  /\ finalOptions = NoOptions
  /\ attempt = 0
  /\ maxRetries = 0
  /\ lastError = NoError
  /\ response = NoResponse
  /\ result = NoResponse
  /\ outcome = "running"
  /\ calls = 0
  /\ backend = {}
  /\ delays = <<>>
  /\ lastFailure = NoError
  /\ saved = "not run"
  /\ target = Undefined

\* no invocation, and the tables as they are before one
ChatIdle ==
  /\ ChatOff
  /\ conversations = {ExistingConversation}
  /\ messages = ExistingMessages

TitleIdle ==
  /\ titlePrompt = <<>>
  /\ titleEntries = <<>>
  /\ title = <<>>
  /\ titleDone = FALSE

NoVoiceOp == [name |-> "none", voiceNoteId |-> 0, entryId |-> Null]

NoFile == <<Null, 0>>

NoRow == [id |-> 0, entryId |-> Null, fileId |-> NoFile]

NoVoiceResult == [op |-> "none", voiceNoteId |-> 0, entryId |-> Null, success |-> FALSE,
                  detail |-> "none"]

VoiceIdle ==
  /\ entries = {}
  /\ voicenotes = {}
  /\ storage = {}
  /\ nextId = 1
  /\ vop = NoVoiceOp
  /\ vpc = "off"
  /\ cur = NoRow
  /\ pending = <<>>
  /\ uploaded = NoFile
  /\ vresult = NoVoiceResult
  /\ dvresult = NoVoiceResult
  /\ issued = {}
  /\ before = {}

MessageIds == {"m1", "m2"}

Handlers == 1..MaxHandlers

NoLikeCall == [pc |-> "idle", id |-> "none", current |-> FALSE, result |-> "none", data |-> FALSE]

LikeIdle ==
  /\ isLiked = [id \in MessageIds |-> FALSE]
  /\ likeCall = [h \in Handlers |-> NoLikeCall]
  /\ likeCalls = 0
  /\ likeInitial = [id \in MessageIds |-> FALSE]
  /\ toggled = [id \in MessageIds |-> 0]
  /\ overlapped = FALSE

NoServiceCall == [service |-> "none", op |-> "none"]

SvcIdle ==
  /\ svcCall = NoServiceCall
  /\ svcPc = "idle"
  /\ svcValue = "none"
  /\ svcCalls = 0

\* the services the factory's instance methods hand out
InstanceServices == {"auth", "database", "profile", "storage"}

\* the services the factory's static methods hand out
StaticServices == {"transcription", "voiceNote", "entries", "conversations", "messages"}

FactoryServices == InstanceServices \cup StaticServices

NoAnswer == [service |-> "none", instance |-> 0, threw |-> FALSE]

FactoryIdle ==
  /\ factoryFile = "none"
  /\ backendProvider = Undefined
  /\ cached = [service \in InstanceServices |-> 0]
  /\ constructed = [service \in FactoryServices |-> 0]
  /\ returned = NoAnswer
  /\ requests = 0

EnvKeys == {"DEFAULT_AI_PROVIDER", "LLM_API_URL_OLLAMA"}

\* the .env file before the first update
NoEnvFile == <<(<<"none", "none">>)>>

IpcIdle ==
  /\ ipcQueue = <<>>
  /\ processEnv = [k \in EnvKeys |-> Undefined]
  /\ envFile = NoEnvFile
  /\ mainWindow = FALSE
  /\ rendererGot = <<>>
  /\ ipcPc = "off"
  /\ ipcCur = <<>>
  /\ lastUpdate = <<>>
  /\ updates = 0

CtxIdle ==
  /\ ctxEntries = <<>>
  /\ ctxInput = <<>>
  /\ ctxText = <<>>
  /\ ctxDone = FALSE

ExIdle ==
  /\ exMessages = <<>>
  /\ exCall = [h \in Handlers |-> "off"]
  /\ exCalls = 0
  /\ exInTurn = TRUE

EcIdle ==
  /\ ecConversations = {}
  /\ ecCurrent = Absent
  /\ ecPc = "off"
  /\ ecSubmissions = 0
  /\ ecLookupFailed = FALSE

AiIdle ==
  /\ aiTable = {}
  /\ aiCurrent = Absent
  /\ aiPc = "off"
  /\ aiLoads = 0
  /\ aiSubmissions = 0
  /\ aiStarted = Absent
  /\ aiAppended = {}

AuthIdle ==
  /\ authUser = Null
  /\ authLoading = FALSE
  /\ authChecking = FALSE
  /\ authCheckDone = FALSE
  /\ authView = "unmounted"
  /\ authPhase = "off"
  /\ authDeps = <<>>
  /\ authNavigated = "none"
  /\ authEvents = 0

RecIdle ==
  /\ recOpen = FALSE
  /\ recPermission = FALSE
  /\ recorder = "off"
  /\ recCaptured = FALSE
  /\ recStopEvent = FALSE
  /\ recTimer = FALSE
  /\ isRecording = FALSE
  /\ duration = 0
  /\ recordingBlob = FALSE
  /\ isPlaying = FALSE
  /\ playbackPosition = 0
  /\ recCompleted = "none"
  /\ recRecorded = FALSE

DraftIdle ==
  /\ ceDraft = "none"
  /\ ceCreate = "off"
  /\ ceEntryId = FALSE
  /\ ceVoiceNotes = 0
  /\ cePage = "off"
  /\ ceDelete = "not called"
  /\ ceLoading = FALSE
  /\ ceError = "none"
  /\ ceTitle = ""
  /\ ceSavedTitle = ""

(***************************************************************************)
(* aiService.chat: options                                                 *)
(***************************************************************************)
\* defaultOptions of chat
DefaultOptions ==
  [provider |-> env.defaultProvider, retries |-> DefaultRetries, saveConversation |-> FALSE]

\* finalOptions = { ...defaultOptions, ...options }
FinalOptions(options) == Spread(DefaultOptions, options)

\* the branch of chat: chatWithDeepSeek for the tag "deepseek", else chatWithOllama
DispatchTo(options) == IF Get(options, "provider") = "deepseek" THEN "deepseek" ELSE "ollama"

\* a bug: the caller's options are spread last and win over the entry's context
CallerWinsEntryOptions(options, entryId) ==
  Spread([provider |-> "ollama",
          saveConversation |-> ~(Has(options, "saveConversation") /\ options["saveConversation"] = FALSE),
          contextType |-> "entries",
          contextReference |-> entryId],
         options)

\* contextOptions of chatWithEntry, as handed to chat
EntryOptions(options, entryId) ==
  Spread(options,
         [provider |-> "ollama",
          saveConversation |-> ~(Has(options, "saveConversation") /\ options["saveConversation"] = FALSE),
          contextType |-> "entries",
          contextReference |-> entryId])

\* contextOptions of chatWithEntries, as handed to chat; entryIds are the ids
\* of the rows getEntries answered with
EntriesOptions(options, entryIds) ==
  Spread(options,
         [provider |-> "ollama",
          saveConversation |-> ~(Has(options, "saveConversation") /\ options["saveConversation"] = FALSE),
          contextType |-> "entries",
          contextReference |-> IF Len(entryIds) = 1 THEN entryIds[1] ELSE Undefined])

\* the options analyzeEntries hands to chat
AnalyzeOptions(options) == Spread(options, [context |-> "entriesContext"])

\* the options continueConversation hands to chat for the conversation conv
ContinueOptions(options, conv) ==
  Spread(options,
         [provider |-> Or(conv.provider, Get(options, "provider")),
          conversationId |-> conv.id,
          saveConversation |-> TRUE])

(***************************************************************************)
(* chatWithOllama and chatWithDeepSeek: the pieces of the retry loop       *)
(***************************************************************************)
\* const maxRetries = options.retries || 2   (chatWithOllama)
OllamaMaxRetries(options) ==
  IF Has(options, "retries") /\ options["retries"] # 0 THEN options["retries"] ELSE DefaultRetries

\* const maxRetries = options.retries || 2   (chatWithDeepSeek)
DeepSeekMaxRetries(options) ==
  IF Has(options, "retries") /\ options["retries"] # 0 THEN options["retries"] ELSE DefaultRetries

\* a bug: the error of the first failure is kept
KeepFirstError(prev, error) == IF prev = NoError THEN error ELSE prev

\* catch (error) { lastError = error; ... }
RecordError(prev, error) == error

\* a bug: the delay is not capped
UncappedDelay(n) == BackoffBase * 2 ^ (n - 1)

\* Math.min(1000 * Math.pow(2, attempt - 1), 8000)   (chatWithOllama)
OllamaDelay(n) == Min(BackoffBase * 2 ^ (n - 1), BackoffCap)

\* Math.min(1000 * Math.pow(2, attempt - 1), 8000)   (chatWithDeepSeek)
DeepSeekDelay(n) == Min(BackoffBase * 2 ^ (n - 1), BackoffCap)

\* the error message chatWithOllama reports once the loop is over
OllamaErrorMessage(e) ==
  IF e.axios
    THEN Or(e.dataError, Or(e.message, "Network error during Ollama request"))
    ELSE IF e # NoError THEN e.message ELSE "Failed to get response from Ollama"

\* the error message chatWithDeepSeek reports once the loop is over
DeepSeekErrorMessage(e) ==
  IF e # NoError THEN e.message ELSE "Failed to get response from DeepSeek"

Success(text) == [success |-> TRUE, text |-> text, error |-> Undefined]

Failure(message) == [success |-> FALSE, text |-> Undefined, error |-> message]

(***************************************************************************)
(* Initial state: one invocation about to run against a database that      *)
(* holds one conversation with one exchange                                *)
(***************************************************************************)
ChatInit ==
  /\ call \in Calls
  /\ env \in Environments
  /\ openaiClient = FALSE
  /\ pc = "start"
  /\ finalOptions = NoOptions
  /\ attempt = 0
  /\ maxRetries = 0
  /\ lastError = NoError
  /\ response = NoResponse
  /\ result = NoResponse
  /\ outcome = "running"
  /\ calls = 0
  /\ backend = {}
  /\ delays = <<>>
  /\ lastFailure = NoError
  /\ saved = "not run"
  /\ target = Undefined
  /\ conversations = {ExistingConversation}
  /\ messages = ExistingMessages

(***************************************************************************)
(* Entry points                                                            *)
(***************************************************************************)
\* chat(prompt, fullPrompt, options) up to the first attempt of the dispatch
ChatBegin(options) ==
  LET fo == FinalOptions(options)
      mr == IF DispatchTo(fo) = "deepseek" THEN DeepSeekMaxRetries(fo) ELSE OllamaMaxRetries(fo)
  IN /\ finalOptions' = fo
     /\ maxRetries' = mr
     /\ attempt' = 1
     /\ pc' = IF DispatchTo(fo) = "deepseek"
                THEN (IF 1 <= mr THEN "deepseek_attempt" ELSE "deepseek_exhausted")
                ELSE (IF 1 <= mr THEN "ollama_attempt" ELSE "ollama_exhausted")
     /\ UNCHANGED <<nonChatVars, call, env, openaiClient, lastError, response, result, outcome, calls,
                    backend, delays, lastFailure, saved, target, conversations, messages>>

Chat ==
  /\ pc = "start"
  /\ call.entryPoint = "chat"
  /\ ChatBegin(call.options)

ChatWithEntry ==
  /\ pc = "start"
  /\ call.entryPoint = "chatWithEntry"
  /\ ChatBegin(EntryOptions(call.options, call.entryId))

\* newChat hands its options to chat as they are
NewChat ==
  /\ pc = "start"
  /\ call.entryPoint = "newChat"
  /\ ChatBegin(call.options)

\* chatWithEntries: getEntries answered with no, one or two entries
ChatWithEntries ==
  /\ pc = "start"
  /\ call.entryPoint = "chatWithEntries"
  /\ \E entryIds \in {<<>>, <<"e1">>, <<"e1", "e2">>} :
       ChatBegin(EntriesOptions(call.options, entryIds))

AnalyzeEntries ==
  /\ pc = "start"
  /\ call.entryPoint = "analyzeEntries"
  /\ ChatBegin(AnalyzeOptions(call.options))

\* continueConversation: getConversation answered with the conversation
ContinueConversation ==
  /\ pc = "start"
  /\ call.entryPoint = "continueConversation"
  /\ \E conv \in conversations :
       /\ conv.id = call.conversationId
       /\ ChatBegin(ContinueOptions(call.options, conv))

\* continueConversation: getConversation answered with an error or with no row
ContinueConversationNotFound ==
  /\ pc = "start"
  /\ call.entryPoint = "continueConversation"
  /\ \E message \in {"Conversation not found", "Failed to get conversation"} :
       result' = Failure(message)
  /\ pc' = "done"
  /\ UNCHANGED <<nonChatVars, call, env, openaiClient, finalOptions, attempt, maxRetries, lastError,
                 response, outcome, calls, backend, delays, lastFailure, saved, target,
                 conversations, messages>>

(***************************************************************************)
(* chatWithOllama                                                          *)
(***************************************************************************)
\* a bug: the loop waits after every failed attempt
AlwaysWaits(n, limit) == TRUE

\* if (attempt < maxRetries): a wait follows the failed attempt
WaitsBeforeRetry(n, limit) == n < limit

\* a bug: the loop starts over after a failed attempt
LoopStartsOver(attemptPc, exhaustedPc) ==
  /\ attempt' = 1
  /\ pc' = attemptPc

\* attempt++ and the test attempt <= maxRetries of the for loop
LoopStep(attemptPc, exhaustedPc) ==
  /\ attempt' = attempt + 1
  /\ pc' = IF attempt + 1 <= maxRetries THEN attemptPc ELSE exhaustedPc

\* the catch block of the loop body, and the loop's increment and test when
\* no wait follows
AttemptFailed(error, attemptPc, backoffPc, exhaustedPc) ==
  /\ lastError' = RecordError(lastError, error)
  /\ lastFailure' = error
  /\ IF WaitsBeforeRetry(attempt, maxRetries)
       THEN /\ pc' = backoffPc
            /\ attempt' = attempt
       ELSE LoopStep(attemptPc, exhaustedPc)

OllamaAttemptSucceeds ==
  /\ pc = "ollama_attempt"
  /\ calls' = calls + 1
  /\ backend' = backend \cup {"POST /api/generate"}
  /\ response' = Success(ProviderText)
  /\ outcome' = "returned"
  /\ pc' = "dispatched"
  /\ UNCHANGED <<nonChatVars, call, env, openaiClient, finalOptions, attempt, maxRetries, lastError,
                 result, delays, lastFailure, saved, target, conversations, messages>>

\* axios.post rejects, or resolves without data or with an empty response field
OllamaAttemptFails ==
  /\ pc = "ollama_attempt"
  /\ calls' = calls + 1
  /\ backend' = backend \cup {"POST /api/generate"}
  /\ \E error \in AxiosErrors \cup {PlainError("Invalid response from Ollama API")} :
       AttemptFailed(error, "ollama_attempt", "ollama_backoff", "ollama_exhausted")
  /\ UNCHANGED <<nonChatVars, call, env, openaiClient, finalOptions, maxRetries, response, result,
                 outcome, delays, saved, target, conversations, messages>>

OllamaBackoff ==
  /\ pc = "ollama_backoff"
  /\ delays' = Append(delays, OllamaDelay(attempt))
  /\ LoopStep("ollama_attempt", "ollama_exhausted")
  /\ UNCHANGED <<nonChatVars, call, env, openaiClient, finalOptions, maxRetries, lastError, response,
                 result, outcome, calls, backend, lastFailure, saved, target,
                 conversations, messages>>

OllamaExhausted ==
  /\ pc = "ollama_exhausted"
  /\ response' = Failure(OllamaErrorMessage(lastError))
  /\ outcome' = "returned"
  /\ pc' = "dispatched"
  /\ UNCHANGED <<nonChatVars, call, env, openaiClient, finalOptions, attempt, maxRetries, lastError,
                 result, calls, backend, delays, lastFailure, saved, target,
                 conversations, messages>>

(***************************************************************************)
(* chatWithDeepSeek                                                        *)
(***************************************************************************)
\* getOpenAIClient throws when no client exists yet and the URL or key is unset
ClientAvailable == openaiClient \/ env.deepseekConfigured

DeepSeekAttemptSucceeds ==
  /\ pc = "deepseek_attempt"
  /\ ClientAvailable
  /\ openaiClient' = TRUE
  /\ calls' = calls + 1
  /\ backend' = backend \cup {"chat.completions"}
  /\ response' = Success(ProviderText)
  /\ outcome' = "returned"
  /\ pc' = "dispatched"
  /\ UNCHANGED <<nonChatVars, call, env, finalOptions, attempt, maxRetries, lastError, result, delays,
                 lastFailure, saved, target, conversations, messages>>

\* the request rejects, or resolves without choices or with empty content
DeepSeekAttemptFails ==
  /\ pc = "deepseek_attempt"
  /\ ClientAvailable
  /\ openaiClient' = TRUE
  /\ calls' = calls + 1
  /\ backend' = backend \cup {"chat.completions"}
  /\ \E error \in OpenAIErrors \cup {PlainError("Invalid response format from DeepSeek API"),
                                     PlainError("Empty response from DeepSeek API")} :
       AttemptFailed(error, "deepseek_attempt", "deepseek_backoff", "deepseek_exhausted")
  /\ UNCHANGED <<nonChatVars, call, env, finalOptions, maxRetries, response, result, outcome, delays,
                 saved, target, conversations, messages>>

\* getOpenAIClient throws inside the try block: no request is made
DeepSeekNotConfigured ==
  /\ pc = "deepseek_attempt"
  /\ ~ClientAvailable
  /\ AttemptFailed(PlainError("DeepSeek API URL or API Key not configured"),
                   "deepseek_attempt", "deepseek_backoff", "deepseek_exhausted")
  /\ UNCHANGED <<nonChatVars, call, env, openaiClient, finalOptions, maxRetries, response, result,
                 outcome, calls, backend, delays, saved, target, conversations, messages>>

DeepSeekBackoff ==
  /\ pc = "deepseek_backoff"
  /\ delays' = Append(delays, DeepSeekDelay(attempt))
  /\ LoopStep("deepseek_attempt", "deepseek_exhausted")
  /\ UNCHANGED <<nonChatVars, call, env, openaiClient, finalOptions, maxRetries, lastError, response,
                 result, outcome, calls, backend, lastFailure, saved, target,
                 conversations, messages>>

DeepSeekExhausted ==
  /\ pc = "deepseek_exhausted"
  /\ response' = Failure(DeepSeekErrorMessage(lastError))
  /\ outcome' = "returned"
  /\ pc' = "dispatched"
  /\ UNCHANGED <<nonChatVars, call, env, openaiClient, finalOptions, attempt, maxRetries, lastError,
                 result, calls, backend, delays, lastFailure, saved, target,
                 conversations, messages>>

(***************************************************************************)
(* aiService.chat after the dispatch, saveConversation and createExchange  *)
(***************************************************************************)
\* a bug: the error caught in saveConversation is thrown again
RethrowSaveError(error) == error

\* catch (error) { console.error(...) } of saveConversation: what propagates
SaveConversationCatch(error) == Undefined

\* a bug: a new conversation is created whether or not an id was supplied
AlwaysNewConversation(options) == FALSE

\* if (options.conversationId)
UsesExistingConversation(options) == Truthy(Get(options, "conversationId"))

\* the row saveConversation hands to createConversation
NewConversation(userId, options) ==
  [id |-> NewConversationId,
   userId |-> userId,
   contextType |-> Or(Get(options, "contextType"), "general"),
   contextReference |-> Or(Get(options, "contextReference"), Null),
   provider |-> Or(Get(options, "provider"), Null)]

\* messages.conversation_id references conversations(id)
ConversationExists(id) == \E c \in conversations : c.id = id

\* saveConversation is over: chat returns the response, or its own catch block
\* turns what saveConversation threw into a failure
PersistEnd(status, error) ==
  /\ saved' = status
  /\ pc' = "done"
  /\ result' = IF error # Undefined /\ SaveConversationCatch(error) # Undefined
                 THEN Failure(SaveConversationCatch(error))
                 ELSE response

\* a bug: the exchange is saved whatever the response
SavesWhateverTheResponse(answer, options) == options["saveConversation"]

\* response.success && finalOptions.saveConversation
SavesConversation(answer, options) == answer.success /\ options["saveConversation"]

\* if (response.success && finalOptions.saveConversation) ... return response
ChatAfterDispatch ==
  /\ pc = "dispatched"
  /\ IF SavesConversation(response, finalOptions)
       THEN /\ pc' = "save_user"
            /\ result' = result
       ELSE /\ pc' = "done"
            /\ result' = response
  /\ UNCHANGED <<nonChatVars, call, env, openaiClient, finalOptions, attempt, maxRetries, lastError,
                 response, outcome, calls, backend, delays, lastFailure, saved, target,
                 conversations, messages>>

\* getCurrentUser answers null: saveConversation throws 'User not authenticated'
SaveNoUser ==
  /\ pc = "save_user"
  /\ env.user = Null
  /\ PersistEnd("no user", "User not authenticated")
  /\ UNCHANGED <<nonChatVars, call, env, openaiClient, finalOptions, attempt, maxRetries, lastError,
                 response, outcome, calls, backend, delays, lastFailure, target,
                 conversations, messages>>

\* getCurrentUser answers the user: the branch on options.conversationId
SaveBegin ==
  /\ pc = "save_user"
  /\ env.user # Null
  /\ IF UsesExistingConversation(finalOptions)
       THEN /\ target' = finalOptions["conversationId"]
            /\ pc' = "insert_user"
       ELSE /\ target' = target
            /\ pc' = "create_conversation"
  /\ UNCHANGED <<nonChatVars, call, env, openaiClient, finalOptions, attempt, maxRetries, lastError,
                 response, result, outcome, calls, backend, delays, lastFailure, saved,
                 conversations, messages>>

CreateConversationSucceeds ==
  /\ pc = "create_conversation"
  /\ conversations' = conversations \cup {NewConversation(env.user, finalOptions)}
  /\ target' = NewConversationId
  /\ pc' = "insert_user"
  /\ UNCHANGED <<nonChatVars, call, env, openaiClient, finalOptions, attempt, maxRetries, lastError,
                 response, result, outcome, calls, backend, delays, lastFailure, saved,
                 messages>>

\* createConversation answers {data: null, error}: saveConversation throws
CreateConversationFails ==
  /\ pc = "create_conversation"
  /\ PersistEnd("create failed", "Failed to create conversation")
  /\ UNCHANGED <<nonChatVars, call, env, openaiClient, finalOptions, attempt, maxRetries, lastError,
                 response, outcome, calls, backend, delays, lastFailure, target,
                 conversations, messages>>

\* createExchange: the insert of the user message
InsertUserMessageSucceeds ==
  /\ pc = "insert_user"
  /\ ConversationExists(target)
  /\ messages' = Append(messages,
                        [conversationId |-> target, author |-> "user", content |-> call.prompt])
  /\ pc' = "insert_ai"
  /\ UNCHANGED <<nonChatVars, call, env, openaiClient, finalOptions, attempt, maxRetries, lastError,
                 response, result, outcome, calls, backend, delays, lastFailure, saved,
                 target, conversations>>

\* the insert is refused: createExchange returns {data: [], error}, which
\* saveConversation does not look at
InsertUserMessageFails ==
  /\ pc = "insert_user"
  /\ PersistEnd("user insert failed", Undefined)
  /\ UNCHANGED <<nonChatVars, call, env, openaiClient, finalOptions, attempt, maxRetries, lastError,
                 response, outcome, calls, backend, delays, lastFailure, target,
                 conversations, messages>>

\* createExchange: the insert of the AI message, then the touch of the
\* conversation's updatedAt, whose outcome nothing reads
InsertAiMessageSucceeds ==
  /\ pc = "insert_ai"
  /\ ConversationExists(target)
  /\ messages' = Append(messages,
                        [conversationId |-> target, author |-> "ai",
                         content |-> Or(response.text, "")])
  /\ PersistEnd("saved", Undefined)
  /\ UNCHANGED <<nonChatVars, call, env, openaiClient, finalOptions, attempt, maxRetries, lastError,
                 response, outcome, calls, backend, delays, lastFailure, target,
                 conversations>>

InsertAiMessageFails ==
  /\ pc = "insert_ai"
  /\ PersistEnd("ai insert failed", Undefined)
  /\ UNCHANGED <<nonChatVars, call, env, openaiClient, finalOptions, attempt, maxRetries, lastError,
                 response, outcome, calls, backend, delays, lastFailure, target,
                 conversations, messages>>

Init == ChatInit /\ TitleIdle /\ VoiceIdle /\ LikeIdle /\ SvcIdle /\ FactoryIdle /\ IpcIdle /\ CtxIdle
        /\ ExIdle
        /\ EcIdle
        /\ AiIdle
        /\ AuthIdle
        /\ RecIdle
        /\ DraftIdle

Next ==
  \/ Chat
  \/ ChatWithEntry
  \/ NewChat
  \/ ChatWithEntries
  \/ AnalyzeEntries
  \/ ContinueConversation
  \/ ContinueConversationNotFound
  \/ OllamaAttemptSucceeds
  \/ OllamaAttemptFails
  \/ OllamaBackoff
  \/ OllamaExhausted
  \/ DeepSeekAttemptSucceeds
  \/ DeepSeekAttemptFails
  \/ DeepSeekNotConfigured
  \/ DeepSeekBackoff
  \/ DeepSeekExhausted
  \/ ChatAfterDispatch
  \/ SaveNoUser
  \/ SaveBegin
  \/ CreateConversationSucceeds
  \/ CreateConversationFails
  \/ InsertUserMessageSucceeds
  \/ InsertUserMessageFails
  \/ InsertAiMessageSucceeds
  \/ InsertAiMessageFails

Spec == Init /\ [][Next]_vars

\* every awaited call of the invocation returns: a step that can be taken is
\* taken
SpecLive == Init /\ [][Next]_vars /\ WF_vars(Next)

(***************************************************************************)
(* generateConversationTitle                                               *)
(***************************************************************************)
\* A string is the sequence of its characters.
Ellipsis == <<".", ".", ".">>

About(entryTitle) == <<"A", "b", "o", "u", "t", " ", "\"">> \o entryTitle \o <<"\"">>

\* prompt.substring(0, n)
Substring(str, n) == SubSeq(str, 1, Min(n, Len(str)))

\* a bug: fifty characters of the prompt are kept before the dots
KeepsTitleMaxLength(prompt, titles) ==
  IF Len(prompt) > TitleMaxLength
    THEN Substring(prompt, TitleMaxLength) \o Ellipsis
    ELSE IF titles # Absent /\ Len(titles[1]) = 1
      THEN About(titles[1][1])
      ELSE prompt

\* generateConversationTitle(prompt, entries); titles is Absent when no entries
\* are passed, else <<the titles of the entries>>
generateConversationTitle(prompt, titles) ==
  IF Len(prompt) > TitleMaxLength
    THEN Substring(prompt, TitleKeep) \o Ellipsis
    ELSE IF titles # Absent /\ Len(titles[1]) = 1
      THEN About(titles[1][1])
      ELSE prompt

Alphabet == <<"a", "b", "c", " ", ".">>

\* the prompt of n characters whose i-th character is the (i * step)-th letter
PromptOf(n, step) == [i \in 1..n |-> Alphabet[((i * step) % Len(Alphabet)) + 1]]

TitlePrompts == {PromptOf(n, step) : n \in 0..MaxPromptLen, step \in {1, 2}}

EntryTitles == {Absent, <<(<<>>)>>, <<(<<(<<"T", "r", "i", "p">>)>>)>>,
                <<(<<(<<"T", "r", "i", "p">>), (<<"D", "a", "y">>)>>)>>}

TitleInit ==
  /\ titlePrompt \in TitlePrompts
  /\ titleEntries \in EntryTitles
  /\ title = <<>>
  /\ titleDone = FALSE

GenerateTitle ==
  /\ ~titleDone
  /\ title' = generateConversationTitle(titlePrompt, titleEntries)
  /\ titleDone' = TRUE
  /\ UNCHANGED <<nonTitleVars, titlePrompt, titleEntries>>

TitleNext == GenerateTitle

InitTitle == TitleInit /\ ChatIdle /\ VoiceIdle /\ LikeIdle /\ SvcIdle /\ FactoryIdle /\ IpcIdle /\ CtxIdle
             /\ ExIdle
             /\ EcIdle
             /\ AiIdle
             /\ AuthIdle
             /\ RecIdle
             /\ DraftIdle

SpecTitle == InitTitle /\ [][TitleNext]_vars

\* C7: for a prompt of more than 50 characters the title is the first 47
\* characters of the prompt followed by "..." (50 characters in all), with or
\* without entries; for a prompt of at most 50 characters and no entry context
\* the title is the prompt itself.
C7_TitleOfPrompt ==
  titleDone =>
    /\ Len(titlePrompt) > 50 =>
         /\ Len(title) = 50
         /\ \A i \in 1..47 : title[i] = titlePrompt[i]
         /\ \A i \in 48..50 : title[i] = "."
    /\ (Len(titlePrompt) <= 50 /\ titleEntries \in {Absent, <<(<<>>)>>}) => title = titlePrompt

\* C7 witness: a prompt of 51 characters has been given a title, with one entry
C7_Witness ==
  /\ titleDone
  /\ Len(titlePrompt) = 51
  /\ titleEntries # Absent
  /\ Len(titleEntries[1]) = 1
  /\ Len(title) = 50

(***************************************************************************)
(* SupabaseVoiceNoteService and SupabaseEntriesService.deleteEntry          *)
(***************************************************************************)
EntryIds == {"e1", "e2"}

VoiceNoteIds == 1..MaxVoiceNotes

\* the path uploadFile stores the object under: the entry's folder when the
\* voice note is created for an entry, the user's folder otherwise
StoragePath(entryId, id) == <<entryId, id>>

VoiceInit ==
  /\ entries = EntryIds
  /\ voicenotes = {}
  /\ storage = {}
  /\ nextId = 1
  /\ vop = NoVoiceOp
  /\ vpc = "idle"
  /\ cur = NoRow
  /\ pending = <<>>
  /\ uploaded = NoFile
  /\ vresult = NoVoiceResult
  /\ dvresult = NoVoiceResult
  /\ issued = {}
  /\ before = {}

\* an operation is called: what every call resets
Begin(name, voiceNoteId, entryId, at) ==
  /\ vpc = "idle"
  /\ vop' = [name |-> name, voiceNoteId |-> voiceNoteId, entryId |-> entryId]
  /\ vpc' = at
  /\ cur' = NoRow
  /\ pending' = <<>>
  /\ uploaded' = NoFile
  /\ vresult' = NoVoiceResult
  /\ dvresult' = NoVoiceResult
  /\ issued' = {}
  /\ before' = storage

\* the operation returns to its caller
Return(success, detail) ==
  /\ vresult' = [op |-> vop.name, voiceNoteId |-> vop.voiceNoteId, entryId |-> vop.entryId,
                 success |-> success, detail |-> detail]
  /\ vpc' = "idle"

\* storageService.deleteFile(fileId): the bucket removes the object or answers
\* with an error; either way deleteFile returns a value and does not throw
DeleteFile(fileId, removed) ==
  /\ storage' = IF removed THEN storage \ {fileId} ELSE storage
  /\ issued' = issued \cup {<<fileId, removed>>}

(***************************************************************************)
(* createVoiceNote                                                         *)
(***************************************************************************)
CreateVoiceNote ==
  /\ nextId <= MaxVoiceNotes
  /\ \E entryId \in EntryIds \cup {Null} : Begin("createVoiceNote", nextId, entryId, "cv_auth")
  /\ nextId' = nextId + 1
  /\ UNCHANGED <<nonVoiceVars, entries, voicenotes, storage>>

\* uploadFile: isAuthenticated answers false
UploadNotAuthenticated ==
  /\ vpc = "cv_auth"
  /\ Return(FALSE, "not authenticated")
  /\ UNCHANGED <<nonVoiceVars, entries, voicenotes, storage, nextId, vop, cur, pending,
                 uploaded, dvresult, issued, before>>

UploadAuthenticated ==
  /\ vpc = "cv_auth"
  /\ vpc' = "cv_upload"
  /\ UNCHANGED <<nonVoiceVars, entries, voicenotes, storage, nextId, vop, cur, pending,
                 uploaded, vresult, dvresult, issued, before>>

UploadSucceeds ==
  /\ vpc = "cv_upload"
  /\ storage' = storage \cup {StoragePath(vop.entryId, vop.voiceNoteId)}
  /\ uploaded' = StoragePath(vop.entryId, vop.voiceNoteId)
  /\ vpc' = "cv_insert"
  /\ UNCHANGED <<nonVoiceVars, entries, voicenotes, nextId, vop, cur, pending, vresult,
                 dvresult, issued, before>>

\* the file cannot be read or the bucket refuses it
UploadFails ==
  /\ vpc = "cv_upload"
  /\ Return(FALSE, "upload failed")
  /\ UNCHANGED <<nonVoiceVars, entries, voicenotes, storage, nextId, vop, cur, pending,
                 uploaded, dvresult, issued, before>>

\* a bug: the row names the path built from the metadata, not the one returned
PathFromMetadata(returnedPath, id) == StoragePath(Null, id)

\* fileId of the row: the fileId uploadFile returned
RowFileId(returnedPath, id) == returnedPath

InsertVoiceNoteSucceeds ==
  /\ vpc = "cv_insert"
  /\ voicenotes' = voicenotes \cup
       {[id |-> vop.voiceNoteId, entryId |-> vop.entryId,
         fileId |-> RowFileId(uploaded, vop.voiceNoteId)]}
  /\ Return(TRUE, "created")
  /\ UNCHANGED <<nonVoiceVars, entries, storage, nextId, vop, cur, pending, uploaded,
                 dvresult, issued, before>>

\* the insert answers with an error, or throws: both paths call deleteFile next
InsertVoiceNoteFails ==
  /\ vpc = "cv_insert"
  /\ \E how \in {"insert error", "insert threw"} : vpc' = how
  /\ UNCHANGED <<nonVoiceVars, entries, voicenotes, storage, nextId, vop, cur, pending,
                 uploaded, vresult, dvresult, issued, before>>

\* await this.storageService.deleteFile(fileId), then the error is returned
CleanUpUploadedFile ==
  /\ vpc \in {"insert error", "insert threw"}
  /\ \E removed \in BOOLEAN : DeleteFile(uploaded, removed)
  /\ Return(FALSE, vpc)
  /\ UNCHANGED <<nonVoiceVars, entries, voicenotes, nextId, vop, cur, pending, uploaded,
                 dvresult, before>>

(***************************************************************************)
(* deleteVoiceNote, called directly or by deleteEntry                      *)
(***************************************************************************)
\* the id the running deleteVoiceNote was called with
DeleteTarget == IF vop.name = "deleteEntry" THEN Head(pending) ELSE vop.voiceNoteId

\* deleteVoiceNote returns; deleteEntry drops the value and goes on with its loop
DeleteVoiceNoteReturns(success, detail) ==
  /\ dvresult' = [op |-> "deleteVoiceNote", voiceNoteId |-> DeleteTarget, entryId |-> Null,
                  success |-> success, detail |-> detail]
  /\ IF vop.name = "deleteEntry"
       THEN /\ pending' = Tail(pending)
            /\ IF Tail(pending) = <<>>
                 THEN Return(TRUE, "deleted")
                 ELSE vpc' = "dv_get" /\ vresult' = vresult
       ELSE /\ pending' = pending
            /\ Return(success, detail)

\* a bug: the error of the row deletion is not looked at
IgnoreRowDeleteError(failed) == "delete file"

\* if (error) return {success: false, ...} after the row deletion
AfterRowDelete(failed) == IF failed THEN "return failure" ELSE "delete file"

DeleteVoiceNote ==
  /\ \E id \in VoiceNoteIds : Begin("deleteVoiceNote", id, Null, "dv_get")
  /\ UNCHANGED <<nonVoiceVars, entries, voicenotes, storage, nextId>>

GetVoiceNoteFound ==
  /\ vpc = "dv_get"
  /\ \E row \in voicenotes : row.id = DeleteTarget /\ cur' = row
  /\ vpc' = "dv_delete"
  /\ UNCHANGED <<nonVoiceVars, entries, voicenotes, storage, nextId, vop, pending, uploaded,
                 vresult, dvresult, issued, before>>

\* no such row, or the database answers with an error
GetVoiceNoteFails ==
  /\ vpc = "dv_get"
  /\ DeleteVoiceNoteReturns(FALSE, "lookup failed")
  /\ UNCHANGED <<nonVoiceVars, entries, voicenotes, storage, nextId, vop, cur, uploaded,
                 issued, before>>

\* the deletion of the row is answered, with or without an error
DeleteVoiceNoteRow ==
  /\ vpc = "dv_delete"
  /\ \E failed \in BOOLEAN :
       /\ voicenotes' = IF failed THEN voicenotes ELSE {row \in voicenotes : row.id # DeleteTarget}
       /\ IF AfterRowDelete(failed) = "return failure"
            THEN DeleteVoiceNoteReturns(FALSE, "row deletion failed")
            ELSE vpc' = "dv_file" /\ UNCHANGED <<pending, vresult, dvresult>>
  /\ UNCHANGED <<nonVoiceVars, entries, storage, nextId, vop, cur, uploaded, issued, before>>

\* deleteFile of the row's fileId; deleteVoiceNote goes on when it fails
DeleteVoiceNoteFile ==
  /\ vpc = "dv_file"
  /\ \E removed \in BOOLEAN :
       /\ DeleteFile(cur.fileId, removed)
       /\ DeleteVoiceNoteReturns(TRUE, IF removed THEN "file removed" ELSE "file kept")
  /\ UNCHANGED <<nonVoiceVars, entries, voicenotes, nextId, vop, cur, uploaded, before>>

(***************************************************************************)
(* deleteEntry                                                             *)
(***************************************************************************)
RECURSIVE Ascending(_)
\* the elements of a set of numbers, in ascending order
Ascending(S) ==
  IF S = {} THEN <<>>
  ELSE LET m == CHOOSE x \in S : \A y \in S : x <= y IN <<m>> \o Ascending(S \ {m})

DeleteEntry ==
  /\ \E id \in EntryIds : Begin("deleteEntry", 0, id, "de_list")
  /\ UNCHANGED <<nonVoiceVars, entries, voicenotes, storage, nextId>>

\* getVoiceNotesByEntryId answers with the rows of the entry, or with
\* {data: [], error}, of which deleteEntry reads data alone
ListVoiceNotes ==
  /\ vpc = "de_list"
  /\ \E failed \in BOOLEAN :
       pending' = IF failed THEN <<>>
                  ELSE Ascending({row.id : row \in {r \in voicenotes : r.entryId = vop.entryId}})
  /\ vpc' = "de_delete"
  /\ UNCHANGED <<nonVoiceVars, entries, voicenotes, storage, nextId, vop, cur, uploaded,
                 vresult, dvresult, issued, before>>

\* a bug: the conversations that reference the entry go with it
OnDeleteCascade(rows, entryId) == {c \in rows : c.contextReference # entryId}

\* conversations.context_reference is a plain UUID column, with no REFERENCES
\* entries: the deletion of an entries row leaves the conversations as they are
AfterEntryDelete(rows, entryId) == rows

DeleteEntryRowSucceeds ==
  /\ vpc = "de_delete"
  /\ entries' = entries \ {vop.entryId}
  /\ conversations' = AfterEntryDelete(conversations, vop.entryId)
  /\ IF pending = <<>>
       THEN Return(TRUE, "deleted")
       ELSE vpc' = "dv_get" /\ vresult' = vresult
  /\ UNCHANGED <<nonEntryRowVars, voicenotes, storage, nextId, vop, cur, pending, uploaded,
                 dvresult, issued, before>>

DeleteEntryRowFails ==
  /\ vpc = "de_delete"
  /\ Return(FALSE, "entry deletion failed")
  /\ UNCHANGED <<nonVoiceVars, entries, voicenotes, storage, nextId, vop, cur, pending,
                 uploaded, dvresult, issued, before>>

VoiceNext ==
  \/ CreateVoiceNote
  \/ UploadNotAuthenticated
  \/ UploadAuthenticated
  \/ UploadSucceeds
  \/ UploadFails
  \/ InsertVoiceNoteSucceeds
  \/ InsertVoiceNoteFails
  \/ CleanUpUploadedFile
  \/ DeleteVoiceNote
  \/ GetVoiceNoteFound
  \/ GetVoiceNoteFails
  \/ DeleteVoiceNoteRow
  \/ DeleteVoiceNoteFile
  \/ DeleteEntry
  \/ ListVoiceNotes
  \/ DeleteEntryRowSucceeds
  \/ DeleteEntryRowFails

InitVoice == VoiceInit /\ ChatIdle /\ TitleIdle /\ LikeIdle /\ SvcIdle /\ FactoryIdle /\ IpcIdle /\ CtxIdle
             /\ ExIdle
             /\ EcIdle
             /\ AiIdle
             /\ AuthIdle
             /\ RecIdle
             /\ DraftIdle

SpecVoice == InitVoice /\ [][VoiceNext]_vars

(***************************************************************************)
(* associateWithEntry                                                      *)
(***************************************************************************)
\* `${voiceNote.userId}/entries/${entryId}/voicenotes/${fileName}`: the file
\* name of the current path under the folder of the entry
NewPath(currentPath, entryId) == <<entryId, currentPath[2]>>

AssociateWithEntry ==
  /\ \E id \in VoiceNoteIds, entryId \in EntryIds :
       Begin("associateWithEntry", id, entryId, "as_get")
  /\ UNCHANGED <<nonVoiceVars, entries, voicenotes, storage, nextId>>

\* the select answers with an error (also when no row has the id)
AssociateGetFails ==
  /\ vpc = "as_get"
  /\ Return(FALSE, "lookup failed")
  /\ UNCHANGED <<nonVoiceVars, entries, voicenotes, storage, nextId, vop, cur, pending,
                 uploaded, dvresult, issued, before>>

\* the row is read into voiceNote; a row already of this entry is returned as
\* it is, any other has its file moved first (its path names another folder)
AssociateGetFound ==
  /\ vpc = "as_get"
  /\ \E row \in voicenotes :
       /\ row.id = vop.voiceNoteId
       /\ cur' = row
       /\ IF row.entryId = vop.entryId
            THEN Return(TRUE, "already associated")
            ELSE vpc' = "as_download" /\ vresult' = vresult
  /\ UNCHANGED <<nonVoiceVars, entries, voicenotes, storage, nextId, vop, pending, uploaded,
                 dvresult, issued, before>>

\* download(currentPath): the content when the object exists and the bucket
\* answers, no data or an exception otherwise, after which the move is given up
AssociateDownload ==
  /\ vpc = "as_download"
  /\ \E answered \in BOOLEAN :
       vpc' = IF answered /\ cur.fileId \in storage THEN "as_upload" ELSE "as_update"
  /\ UNCHANGED <<nonVoiceVars, entries, voicenotes, storage, nextId, vop, cur, pending,
                 uploaded, vresult, dvresult, issued, before>>

\* upload(newPath, fileData, {upsert: true})
AssociateUpload ==
  /\ vpc = "as_upload"
  /\ \E stored \in BOOLEAN :
       /\ storage' = IF stored THEN storage \cup {NewPath(cur.fileId, vop.entryId)} ELSE storage
       /\ vpc' = IF stored THEN "as_remove" ELSE "as_update"
  /\ UNCHANGED <<nonVoiceVars, entries, voicenotes, nextId, vop, cur, pending, uploaded,
                 vresult, dvresult, issued, before>>

\* remove([currentPath]), whose answer is not read, then voiceNote.fileId =
\* newPath; when remove throws the assignment is skipped
AssociateRemove ==
  /\ vpc = "as_remove"
  /\ \E how \in {"removed", "error", "threw"} :
       /\ DeleteFile(cur.fileId, how = "removed")
       /\ cur' = IF how = "threw" THEN cur
                 ELSE [cur EXCEPT !.fileId = NewPath(cur.fileId, vop.entryId)]
  /\ vpc' = "as_update"
  /\ UNCHANGED <<nonVoiceVars, entries, voicenotes, nextId, vop, pending, uploaded, vresult,
                 dvresult, before>>

\* update({entryId, fileId: voiceNote.fileId}).eq('id', voiceNoteId)
AssociateUpdateSucceeds ==
  /\ vpc = "as_update"
  /\ \E row \in voicenotes : row.id = vop.voiceNoteId
  /\ voicenotes' = {IF row.id = vop.voiceNoteId
                      THEN [row EXCEPT !.entryId = vop.entryId, !.fileId = cur.fileId]
                      ELSE row : row \in voicenotes}
  /\ Return(TRUE, "associated")
  /\ UNCHANGED <<nonVoiceVars, entries, storage, nextId, vop, cur, pending, uploaded,
                 dvresult, issued, before>>

\* the update answers with an error, or throws
AssociateUpdateFails ==
  /\ vpc = "as_update"
  /\ Return(FALSE, "update failed")
  /\ UNCHANGED <<nonVoiceVars, entries, voicenotes, storage, nextId, vop, cur, pending,
                 uploaded, dvresult, issued, before>>

\* the four operations of the voice-note and entry services on the rows and
\* the bucket
AssocNext ==
  \/ CreateVoiceNote
  \/ UploadNotAuthenticated
  \/ UploadAuthenticated
  \/ UploadSucceeds
  \/ UploadFails
  \/ InsertVoiceNoteSucceeds
  \/ InsertVoiceNoteFails
  \/ CleanUpUploadedFile
  \/ DeleteVoiceNote
  \/ GetVoiceNoteFound
  \/ GetVoiceNoteFails
  \/ DeleteVoiceNoteRow
  \/ DeleteVoiceNoteFile
  \/ DeleteEntry
  \/ ListVoiceNotes
  \/ DeleteEntryRowSucceeds
  \/ DeleteEntryRowFails
  \/ AssociateWithEntry
  \/ AssociateGetFails
  \/ AssociateGetFound
  \/ AssociateDownload
  \/ AssociateUpload
  \/ AssociateRemove
  \/ AssociateUpdateSucceeds
  \/ AssociateUpdateFails

InitAssoc == InitVoice

SpecAssoc == InitAssoc /\ [][AssocNext]_vars

(***************************************************************************)
(* deleteEntry of an entry that a conversation refers to                   *)
(***************************************************************************)
\* the conversation saveConversation creates for chatWithEntry(prompt, entry)
EntryConversation(entryId) ==
  NewConversation("u1", [contextType |-> "entries", contextReference |-> entryId,
                         provider |-> "ollama"])

\* the tables after an entry chat about one of the entries has been saved
RefInit ==
  /\ ChatOff
  /\ \E entryId \in EntryIds : conversations = {ExistingConversation, EntryConversation(entryId)}
  /\ messages = ExistingMessages \o
       << [conversationId |-> NewConversationId, author |-> "user", content |-> "Hello"],
          [conversationId |-> NewConversationId, author |-> "ai", content |-> ProviderText] >>

RefNext ==
  \/ CreateVoiceNote
  \/ UploadNotAuthenticated
  \/ UploadAuthenticated
  \/ UploadSucceeds
  \/ UploadFails
  \/ InsertVoiceNoteSucceeds
  \/ InsertVoiceNoteFails
  \/ CleanUpUploadedFile
  \/ DeleteVoiceNote
  \/ GetVoiceNoteFound
  \/ GetVoiceNoteFails
  \/ DeleteVoiceNoteRow
  \/ DeleteVoiceNoteFile
  \/ DeleteEntry
  \/ ListVoiceNotes
  \/ DeleteEntryRowSucceeds
  \/ DeleteEntryRowFails

InitRef == VoiceInit /\ RefInit /\ TitleIdle /\ LikeIdle /\ SvcIdle /\ FactoryIdle /\ IpcIdle /\ CtxIdle
             /\ ExIdle
           /\ EcIdle
           /\ AiIdle
           /\ AuthIdle
           /\ RecIdle
           /\ DraftIdle

SpecRef == InitRef /\ [][RefNext]_vars

(***************************************************************************)
(* Properties of the provider dispatch                                     *)
(***************************************************************************)
\* the dispatch function has returned a failure
DispatchFailed == outcome # "running" /\ ~response.success

\* the message a failed attempt carries: the error field of the HTTP error
\* body when the provider sent one, else the message of the error
FailureMessage(e) == IF e.dataError # Undefined THEN e.dataError ELSE e.message

\* C1: a provider dispatch in which every attempt fails returns
\* {success: false, error: <message of the last failed attempt>} and does not
\* throw, whatever the retry count and whatever made the attempts fail.
C1_AllAttemptsFailedReturnsLastMessage ==
  DispatchFailed =>
    /\ outcome = "returned"
    /\ response = [success |-> FALSE, text |-> Undefined, error |-> FailureMessage(lastFailure)]

\* C1 witness: three attempts have failed, the last one with an HTTP error body
C1_Witness ==
  /\ DispatchFailed
  /\ Len(delays) >= 2
  /\ lastFailure.dataError = "model not found"
  /\ response.error = "model not found"

\* the retry count the caller configured, 2 when none is configured
ConfiguredRetries == IF Has(call.options, "retries") THEN call.options["retries"] ELSE 2

\* C2: a dispatch makes at most options.retries calls to the provider (at most
\* 2 when no retry count is configured), and exactly that many when every call
\* fails.
C2_CallsBoundedByConfiguredRetries ==
  /\ calls <= ConfiguredRetries
  /\ (DispatchFailed /\ calls >= 1) => calls = ConfiguredRetries

\* the delay the retry policy prescribes after failed attempt k
PrescribedDelay(k) == CASE k = 1 -> 1000 [] k = 2 -> 2000 [] k = 3 -> 4000 [] OTHER -> 8000

\* C3: the k-th backoff delay of a dispatch, waited after failed attempt k, is
\* min(1000 * 2^(k-1), 8000) ms: 1000, 2000, 4000, 8000, 8000, ...; no delay
\* exceeds 8000 ms; the same for both providers.
C3_BackoffDelays ==
  /\ \A k \in 1..Len(delays) : delays[k] = PrescribedDelay(k) /\ delays[k] <= 8000
  /\ pc \in {"ollama_backoff", "deepseek_backoff"} => Len(delays) = attempt - 1

\* C3 witness: five delays have been waited in a DeepSeek dispatch, the last
\* two of them capped
C3_Witness ==
  /\ Len(delays) = 5
  /\ delays[4] = 8000
  /\ delays[5] = 8000
  /\ pc = "deepseek_attempt"

\* the dispatch is at an attempt, at a wait, or past its loop
AtAttempt == pc \in {"ollama_attempt", "deepseek_attempt"}

AtWait == pc \in {"ollama_backoff", "deepseek_backoff"}

LoopExhausted == pc \in {"ollama_exhausted", "deepseek_exhausted"}

DispatchOver == outcome = "returned"

\* the waits made so far are one for each pair of consecutive attempts
OneWaitBetweenAttempts ==
  /\ AtAttempt => Len(delays) = attempt - 1
  /\ AtWait => (Len(delays) = attempt - 1 /\ attempt < maxRetries)
  /\ (LoopExhausted \/ DispatchFailed) => (attempt = maxRetries + 1 /\ Len(delays) = maxRetries - 1)
  /\ (DispatchOver /\ response.success) => Len(delays) = attempt - 1

\* C16: within one provider dispatch one backoff wait lies between two
\* consecutive attempts (k - 1 waits precede attempt k), no wait follows the
\* last failed attempt (a dispatch of n failed attempts waits n - 1 times), and
\* once an attempt has succeeded there is no further attempt and no further wait.
C16_WaitsBetweenAttemptsOnly ==
  /\ []OneWaitBetweenAttempts
  /\ [][DispatchOver => (calls' = calls /\ delays' = delays /\ attempt' = attempt)]_vars

\* C16 witness: the third attempt succeeded after two waits and the invocation
\* is over
C16_Witness ==
  /\ pc = "done"
  /\ response.success
  /\ attempt = 3
  /\ Len(delays) = 2
  /\ maxRetries > 3

\* the state of the invocation, in the words of the state machine
Phase ==
  CASE pc = "start" -> "ASSEMBLING_PROMPT"
    [] AtAttempt \/ AtWait -> "DISPATCHING"
    [] LoopExhausted -> "ALL_ATTEMPTS_FAILED"
    [] pc = "dispatched" -> IF response.success THEN "SUCCESS" ELSE "ALL_ATTEMPTS_FAILED"
    [] pc \in {"save_user", "create_conversation", "insert_user", "insert_ai"} -> "PERSISTING"
    [] pc = "done" -> "DONE"
    [] OTHER -> "NONE"

\* the moves of the state machine; PERSISTING is left out when saving is not
\* asked for
PhaseMoves ==
  { <<"ASSEMBLING_PROMPT", "DISPATCHING">>, <<"DISPATCHING", "DISPATCHING">>,
    <<"DISPATCHING", "SUCCESS">>, <<"DISPATCHING", "ALL_ATTEMPTS_FAILED">>,
    <<"ALL_ATTEMPTS_FAILED", "ALL_ATTEMPTS_FAILED">>, <<"ALL_ATTEMPTS_FAILED", "DONE">>,
    <<"SUCCESS", "PERSISTING">>, <<"SUCCESS", "DONE">>,
    <<"PERSISTING", "PERSISTING">>, <<"PERSISTING", "DONE">> }

\* continueConversation ends before it calls chat when it finds no conversation
EndsBeforeChat == call.entryPoint = "continueConversation" /\ pc = "start" /\ pc' = "done"

\* one step of an invocation is a move of the state machine, and the attempt
\* number starts at 1 and grows by one at a time
PhaseStep ==
  \/ EndsBeforeChat
  \/ /\ <<Phase, Phase'>> \in PhaseMoves
     /\ (Phase = "ASSEMBLING_PROMPT" => attempt' = 1)
     /\ (Phase = "DISPATCHING" => attempt' \in {attempt, attempt + 1})
     /\ (Phase = "DISPATCHING" /\ AtAttempt /\ AtAttempt' => attempt' = attempt + 1)
     /\ (Phase \notin {"ASSEMBLING_PROMPT", "DISPATCHING"} => attempt' = attempt)
     /\ (Phase = "ALL_ATTEMPTS_FAILED" /\ Phase' = "DONE" => ~result'.success)

\* C17: an invocation of chat goes from ASSEMBLING_PROMPT to DISPATCHING, where
\* the attempts are numbered 1, 2, ... in increasing order, then either to
\* SUCCESS, best-effort PERSISTING and DONE, or to ALL_ATTEMPTS_FAILED and DONE
\* with an error; DISPATCHING is not entered again once left, and when every
\* call returns the invocation reaches DONE.
C17_InvocationStateMachine ==
  /\ [][PhaseStep]_vars
  /\ <>(pc = "done")

\* C17 witness: an invocation is DONE after a failed and a successful attempt
\* and a saved exchange
C17_Witness ==
  /\ pc = "done"
  /\ attempt = 2
  /\ result.success
  /\ saved = "saved"

(***************************************************************************)
(* Properties of the persistence step                                      *)
(***************************************************************************)
NewConversations == conversations \ {ExistingConversation}

NewMessages == SubSeq(messages, Len(ExistingMessages) + 1, Len(messages))

\* the user/AI pair of this invocation, as rows of conversation id
Exchange(id) ==
  << [conversationId |-> id, author |-> "user", content |-> call.prompt],
     [conversationId |-> id, author |-> "ai", content |-> ProviderText] >>

PersistenceFailures == {"no user", "create failed", "user insert failed", "ai insert failed"}

\* C4: when the provider answered and the persistence step failed (no user,
\* conversation not created, a message insert refused), chat returns the
\* successful response {success: true, text}.
C4_PersistenceFailureNotSurfaced ==
  (pc = "done" /\ outcome = "returned" /\ response.success) =>
    result = [success |-> TRUE, text |-> ProviderText, error |-> Undefined]

\* C4 witness: chat is over, the provider had answered and the conversation
\* could not be created
C4_Witness ==
  /\ pc = "done"
  /\ response.success
  /\ saved = "create failed"
  /\ result.success

SuppliedConversationId == Get(finalOptions, "conversationId")

\* C6: with a conversation id supplied, the exchange goes to that conversation
\* and no conversation is created; with none, a conversation is created first
\* and the exchange goes to it, and nothing is written when its creation fails.
C6_ExchangeTarget ==
  IF Truthy(SuppliedConversationId)
    THEN /\ NewConversations = {}
         /\ \A i \in 1..Len(NewMessages) : NewMessages[i].conversationId = SuppliedConversationId
         /\ saved = "saved" => NewMessages = Exchange(SuppliedConversationId)
    ELSE /\ \A i \in 1..Len(NewMessages) :
              /\ NewMessages[i].conversationId = NewConversationId
              /\ \E c \in NewConversations : c.id = NewConversationId
         /\ saved = "create failed" => NewMessages = <<>> /\ NewConversations = {}
         /\ saved = "saved" => NewMessages = Exchange(NewConversationId)

\* C6 witness: continueConversation has appended the exchange to conversation c1
C6_Witness ==
  /\ pc = "done"
  /\ call.entryPoint = "continueConversation"
  /\ SuppliedConversationId = "c1"
  /\ saved = "saved"
  /\ Len(NewMessages) = 2

\* the provider tag the caller requests, or the configured default
RequestedProvider ==
  IF Has(call.options, "provider") THEN call.options["provider"] ELSE env.defaultProvider

\* the backend a provider tag names
BackendOf(tag) == IF tag = "deepseek" THEN "chat.completions" ELSE "POST /api/generate"

OptionEntryPoints == {"chat", "newChat", "chatWithEntry", "chatWithEntries", "analyzeEntries"}

\* C12: for chat, newChat, chatWithEntry, chatWithEntries and analyzeEntries the
\* only backend that receives a request is the one named by the provider tag the
\* caller requests, or by the configured default provider when the caller
\* requests none.
C12_BackendIsRequestedProvider ==
  call.entryPoint \in OptionEntryPoints => backend \subseteq {BackendOf(RequestedProvider)}

\* the same for the entry points that hand the caller's provider tag on to chat
PassThroughEntryPointsDispatchAsRequested ==
  call.entryPoint \in {"chat", "newChat", "analyzeEntries"} =>
    backend \subseteq {BackendOf(RequestedProvider)}

\* C18: an invocation whose every dispatch attempt failed writes nothing: the
\* persistence step is not run, and the conversations and messages stored are
\* those stored before the invocation.
C18_FailedDispatchWritesNothing ==
  DispatchFailed =>
    /\ saved = "not run"
    /\ conversations = {ExistingConversation}
    /\ messages = ExistingMessages

\* C18 witness: an invocation that asked for saving is over after two failed
\* attempts
C18_Witness ==
  /\ pc = "done"
  /\ DispatchFailed
  /\ calls = 2
  /\ finalOptions["saveConversation"]
  /\ env.user # Null

(***************************************************************************)
(* Properties of the voice-note and entry services                         *)
(***************************************************************************)
\* the operation named op has returned and nothing has been called since
Returned(op) == vpc = "idle" /\ vresult.op = op

\* C8: once deleteEntry(E.id) has returned success no voice note with entryId
\* E.id remains, also when the listing of the voice notes or the deletion of
\* one of them failed.
C8_DeleteEntryDeletesVoiceNotes ==
  (Returned("deleteEntry") /\ vresult.success) =>
    \A row \in voicenotes : row.entryId # vresult.entryId

\* the insert of createVoiceNote failed after the upload had succeeded
InsertFailed == Returned("createVoiceNote") /\ vresult.detail \in {"insert error", "insert threw"}

\* C9: when the upload succeeds and the insert fails, the storage delete is
\* issued for the uploaded object and the object is gone when createVoiceNote
\* returns its error.
C9_FailedInsertLeavesNoOrphan ==
  InsertFailed =>
    /\ \E removed \in BOOLEAN : <<uploaded, removed>> \in issued
    /\ uploaded \notin storage

\* the row deleteVoiceNote was asked to delete is gone
RowGone == \A row \in voicenotes : row.id # vresult.voiceNoteId

CreateVoiceNoteInOrder ==
  /\ vpc \in {"cv_auth", "cv_upload"} =>
       (storage = before /\ \A row \in voicenotes : row.id # vop.voiceNoteId)
  /\ vpc = "cv_insert" =>
       (uploaded \in storage /\ \A row \in voicenotes : row.id # vop.voiceNoteId)
  /\ (Returned("createVoiceNote") /\ vresult.detail \in {"not authenticated", "upload failed"}) =>
       /\ ~vresult.success
       /\ storage = before
       /\ \A row \in voicenotes : row.id # vresult.voiceNoteId

\* what a step may do: an object is stored by the upload step alone, which the
\* authentication check alone leads to; a row is inserted by the insert step
\* alone, after the upload, and names the path the upload returned
CreateVoiceNoteStep ==
  /\ (storage' \ storage # {}) => vpc = "cv_upload"
  /\ (vpc' = "cv_upload") => vpc \in {"cv_auth", "cv_upload"}
  /\ (vpc' = "cv_insert") => (vpc \in {"cv_upload", "cv_insert"} /\ uploaded' \in storage')
  /\ (voicenotes' \ voicenotes # {}) =>
       /\ vpc = "cv_insert"
       /\ uploaded \in storage
       /\ \A row \in voicenotes' \ voicenotes : row.id = vop.voiceNoteId /\ row.fileId = uploaded

\* C20: createVoiceNote checks the authentication before it uploads, inserts
\* the voicenotes row only after the upload has succeeded, and the row names the
\* storage path the upload returned; when the user is not authenticated or the
\* upload fails it returns an error value, no row is inserted and no object is
\* left in storage.
C20_CreateVoiceNoteOrder ==
  /\ []CreateVoiceNoteInOrder
  /\ [][CreateVoiceNoteStep]_vars

\* C20 witness: a voice note of an entry has been created, and a second call
\* has returned because the user was not authenticated
C20_Witness ==
  /\ Returned("createVoiceNote")
  /\ vresult.detail = "not authenticated"
  /\ \E row \in voicenotes : row.entryId # Null /\ row.fileId \in storage

\* deleteEntry is running, or returns in this step
InDeleteEntry == vop.name = "deleteEntry" \/ vop'.name = "deleteEntry"

\* no step of deleteEntry writes to the conversations or the messages
DeleteEntryKeepsConversations ==
  InDeleteEntry => (conversations' = conversations /\ messages' = messages)

\* after a successful deleteEntry the entry is gone and the conversations that
\* refer to it are the ones that referred to it before
ReferenceDangles ==
  (Returned("deleteEntry") /\ vresult.success) =>
    /\ vresult.entryId \notin entries
    /\ \A entryId \in EntryIds :
         EntryConversation(entryId) \in conversations \/
           \A c \in conversations : c.contextReference # entryId

\* C23: deleteEntry leaves every conversation and every message unchanged: a
\* conversation whose contextReference is the id of the deleted entry still
\* exists afterwards with the same contextReference, which now names no entry.
C23_DeleteEntryLeavesConversations ==
  /\ []ReferenceDangles
  /\ [][DeleteEntryKeepsConversations]_vars

\* C23 witness: deleteEntry has returned success for an entry with a voice
\* note, and the conversation about that entry still refers to it
C23_Witness ==
  /\ Returned("deleteEntry")
  /\ vresult.success
  /\ vresult.entryId \notin entries
  /\ EntryConversation(vresult.entryId) \in conversations
  /\ Len(messages) = 4
  /\ \E removal \in issued : removal[1][1] = vresult.entryId

\* no operation is running
NoVoiceOpRunning == vpc = "idle"

\* C21: after any sequence of createVoiceNote, associateWithEntry,
\* deleteVoiceNote and deleteEntry operations that each ran to completion,
\* whichever of their backend calls failed, the fileId of every voicenotes row
\* names an object that exists in storage.
C21_FileIdsResolve ==
  NoVoiceOpRunning => \A row \in voicenotes : row.fileId \in storage

\* the ids of the rows whose fileId names no object
Dangling(rows, objects) == {row.id : row \in {r \in rows : r.fileId \notin objects}}

\* a row comes to name a missing object in one step alone: the removal of the
\* old object by associateWithEntry, which precedes the update of the row
DanglesOnlyByMove ==
  Dangling(voicenotes', storage') \ Dangling(voicenotes, storage) # {} => vpc = "as_remove"

FileIdsDangleOnlyByMove == [][DanglesOnlyByMove]_vars

(***************************************************************************)
(* SupabaseMessagesService.toggleLike                                      *)
(***************************************************************************)
\* the messages table before the first call: isLiked is written as a boolean
\* by every insert of the service
LikeInit ==
  /\ isLiked \in [MessageIds -> BOOLEAN]
  /\ likeCall = [h \in Handlers |-> NoLikeCall]
  /\ likeCalls = 0
  /\ likeInitial = isLiked
  /\ toggled = [id \in MessageIds |-> 0]
  /\ overlapped = FALSE

\* a call of handler h is over
LikeReturn(h, outcomeOfCall, row) ==
  likeCall' = [likeCall EXCEPT ![h] = [NoLikeCall EXCEPT !.id = likeCall[h].id,
                                                         !.result = outcomeOfCall, !.data = row]]

\* handleLikeMessage calls toggleLike(id); the id may name no row ("m9")
ToggleLike(h) ==
  /\ likeCall[h].pc = "idle"
  /\ likeCalls < MaxToggles
  /\ \E id \in MessageIds \cup {"m9"} :
       likeCall' = [likeCall EXCEPT ![h] = [NoLikeCall EXCEPT !.pc = "get", !.id = id]]
  /\ likeCalls' = likeCalls + 1
  /\ overlapped' = (overlapped \/ \E g \in Handlers \ {h} : likeCall[g].pc # "idle")
  /\ UNCHANGED <<nonLikeVars, isLiked, likeInitial, toggled>>

\* select('isLiked').eq('id', id).single() answers with the row
GetLikeSucceeds(h) ==
  /\ likeCall[h].pc = "get"
  /\ likeCall[h].id \in MessageIds
  /\ likeCall' = [likeCall EXCEPT ![h].pc = "update", ![h].current = isLiked[likeCall[h].id]]
  /\ UNCHANGED <<nonLikeVars, isLiked, likeCalls, likeInitial, toggled, overlapped>>

\* no row, or the database answers with an error: getError is thrown and caught
GetLikeFails(h) ==
  /\ likeCall[h].pc = "get"
  /\ LikeReturn(h, "error", FALSE)
  /\ UNCHANGED <<nonLikeVars, isLiked, likeCalls, likeInitial, toggled, overlapped>>

\* isLiked: !currentMessage.isLiked
ToggledValue(current) == ~current

\* update({isLiked: !currentMessage.isLiked, ...}).eq('id', id).select().single()
UpdateLikeSucceeds(h) ==
  /\ likeCall[h].pc = "update"
  /\ isLiked' = [isLiked EXCEPT ![likeCall[h].id] = ToggledValue(likeCall[h].current)]
  /\ LikeReturn(h, "data", ToggledValue(likeCall[h].current))
  /\ toggled' = [toggled EXCEPT ![likeCall[h].id] = @ + 1]
  /\ UNCHANGED <<nonLikeVars, likeCalls, likeInitial, overlapped>>

\* the update answers with an error: it is thrown and caught
UpdateLikeFails(h) ==
  /\ likeCall[h].pc = "update"
  /\ LikeReturn(h, "error", FALSE)
  /\ UNCHANGED <<nonLikeVars, isLiked, likeCalls, likeInitial, toggled, overlapped>>

ToggleLikeCalled == \E h \in Handlers : ToggleLike(h)

GetLikeAnswered == \E h \in Handlers : GetLikeSucceeds(h)

GetLikeRefused == \E h \in Handlers : GetLikeFails(h)

UpdateLikeAnswered == \E h \in Handlers : UpdateLikeSucceeds(h)

UpdateLikeRefused == \E h \in Handlers : UpdateLikeFails(h)

LikeNext ==
  \/ ToggleLikeCalled
  \/ GetLikeAnswered
  \/ GetLikeRefused
  \/ UpdateLikeAnswered
  \/ UpdateLikeRefused

InitLike == LikeInit /\ ChatIdle /\ TitleIdle /\ VoiceIdle /\ SvcIdle /\ FactoryIdle /\ IpcIdle /\ CtxIdle
            /\ ExIdle
            /\ EcIdle
            /\ AiIdle
            /\ AuthIdle
            /\ RecIdle
            /\ DraftIdle

SpecLike == InitLike /\ [][LikeNext]_vars

NoLikeCallInFlight == \A h \in Handlers : likeCall[h].pc = "idle"

\* isLiked of the message is its first value inverted once per successful call
InvertedOncePerSuccess(id) == isLiked[id] = (likeInitial[id] # (toggled[id] % 2 = 1))

TogglesOneAfterTheOther ==
  (NoLikeCallInFlight /\ ~overlapped) => \A id \in MessageIds : InvertedOncePerSuccess(id)

\* C24: two toggleLike calls on the same message that both update the row leave
\* isLiked at the value it had before them, in whatever order the read and the
\* write of the one interleave with those of the other.
C24_TwoTogglesRestore ==
  \A id \in MessageIds :
    (NoLikeCallInFlight /\ toggled[id] = 2) => isLiked[id] = likeInitial[id]

(***************************************************************************)
(* The domain services: what an operation does with an error of the hosted *)
(* service                                                                 *)
(***************************************************************************)
\* the operations of each domain service
ServiceOps ==
  [entries |->
     {"getEntries", "searchEntries", "createEntry", "getEntry", "updateEntry", "deleteEntry",
      "removeVoiceNote"},
   voiceNotes |->
     {"createVoiceNote", "getVoiceNote", "getVoiceNotesByIds", "getVoiceNotesByEntryId",
      "updateTranscript", "deleteVoiceNote", "associateWithEntry"},
   conversations |->
     {"getConversations", "getConversation", "createConversation", "updateConversation",
      "deleteConversation", "archiveConversation", "searchConversations",
      "getConversationByEntryId"},
   messages |->
     {"getMessages", "getMessage", "createMessage", "updateMessage", "deleteMessage",
      "toggleLike", "createExchange"},
   profile |-> {"getProfile", "createProfile", "updateProfile", "deleteProfile"},
   auth |->
     {"register", "login", "getCurrentUser", "logout", "isAuthenticated", "updateUserName",
      "updateUserEmail", "updateUserPassword"},
   storage |-> {"uploadFile", "deleteFile"},
   database |->
     {"listDocuments", "getDocument", "createDocument", "updateDocument", "deleteDocument"},
   transcription |-> {"transcribeAudio"}]

AllServiceOps == UNION {ServiceOps[service] : service \in DOMAIN ServiceOps}

\* the operations, each with the service it belongs to
ServiceCalls ==
  {c \in [service : DOMAIN ServiceOps, op : AllServiceOps] : c.op \in ServiceOps[c.service]}

\* What each operation's catch block does with the error; "throws" when it
\* throws it again.
EntriesOnError(op) == IF op = "deleteEntry" THEN "{success, error}" ELSE "{data, error}"

VoiceNotesOnError(op) == IF op = "deleteVoiceNote" THEN "{success, error}" ELSE "{data, error}"

ConversationsOnError(op) ==
  IF op = "deleteConversation" THEN "{success, error}" ELSE "{data, error}"

MessagesOnError(op) == IF op = "deleteMessage" THEN "{success, error}" ELSE "{data, error}"

\* catch (error) { console.error(...); throw error; }
ProfileOnError(op) == "throws"

AuthOnError(op) ==
  IF op \in {"register", "login", "getCurrentUser"} THEN "null"
  ELSE IF op = "isAuthenticated" THEN "false"
  ELSE "{success, error}"

StorageOnError(op) == IF op = "uploadFile" THEN "{fileId, error}" ELSE "{success, error}"

\* catch (error) { console.error(...); return error; }
DatabaseOnError(op) == "error object"

\* catch (err) { console.error(...); throw err; }
TranscriptionOnError(op) == "throws"

OnHostedError(c) ==
  CASE c.service = "entries" -> EntriesOnError(c.op)
    [] c.service = "voiceNotes" -> VoiceNotesOnError(c.op)
    [] c.service = "conversations" -> ConversationsOnError(c.op)
    [] c.service = "messages" -> MessagesOnError(c.op)
    [] c.service = "profile" -> ProfileOnError(c.op)
    [] c.service = "auth" -> AuthOnError(c.op)
    [] c.service = "storage" -> StorageOnError(c.op)
    [] c.service = "database" -> DatabaseOnError(c.op)
    [] c.service = "transcription" -> TranscriptionOnError(c.op)

SvcInit ==
  /\ svcCall = NoServiceCall
  /\ svcPc = "idle"
  /\ svcValue = "none"
  /\ svcCalls = 0

\* a caller invokes an operation of a domain service
ServiceCall ==
  /\ svcPc \in {"idle", "returned", "thrown"}
  /\ svcCalls < MaxServiceCalls
  /\ svcCall' \in ServiceCalls
  /\ svcPc' = "called"
  /\ svcValue' = "none"
  /\ svcCalls' = svcCalls + 1
  /\ UNCHANGED nonSvcVars

\* the hosted service answers without an error
HostedServiceSucceeds ==
  /\ svcPc = "called"
  /\ svcPc' = "returned"
  /\ svcValue' = "value"
  /\ UNCHANGED <<nonSvcVars, svcCall, svcCalls>>

\* the hosted service reports an error and the operation returns a value
OperationReturnsOnError ==
  /\ svcPc = "called"
  /\ OnHostedError(svcCall) # "throws"
  /\ svcPc' = "returned"
  /\ svcValue' = OnHostedError(svcCall)
  /\ UNCHANGED <<nonSvcVars, svcCall, svcCalls>>

\* the hosted service reports an error and the operation throws to its caller
OperationThrowsOnError ==
  /\ svcPc = "called"
  /\ OnHostedError(svcCall) = "throws"
  /\ svcPc' = "thrown"
  /\ svcValue' = "none"
  /\ UNCHANGED <<nonSvcVars, svcCall, svcCalls>>

SvcNext ==
  \/ ServiceCall
  \/ HostedServiceSucceeds
  \/ OperationReturnsOnError
  \/ OperationThrowsOnError

InitSvc == SvcInit /\ ChatIdle /\ TitleIdle /\ VoiceIdle /\ LikeIdle /\ FactoryIdle /\ IpcIdle /\ CtxIdle
           /\ ExIdle
           /\ EcIdle
           /\ AiIdle
           /\ AuthIdle
           /\ RecIdle
           /\ DraftIdle

SpecSvc == InitSvc /\ [][SvcNext]_vars

\* the forms of a typed error value
TypedErrorValues == {"{data, error}", "{success, error}"}

\* C13: no operation of a domain service throws to its caller when the hosted
\* service reports an error, and what it returns then is a value of the form
\* {data, error} or {success, error}.
C13_HostedErrorsReturnedAsValues ==
  /\ svcPc # "thrown"
  /\ svcPc = "returned" => svcValue \in TypedErrorValues \cup {"value"}

\* the same for the entries, voice-note, conversations and messages services
TableServicesReturnTypedErrors ==
  svcCall.service \in {"entries", "voiceNotes", "conversations", "messages"} =>
    /\ svcPc # "thrown"
    /\ svcPc = "returned" => svcValue \in TypedErrorValues \cup {"value"}

(***************************************************************************)
(* ServiceFactory                                                          *)
(***************************************************************************)
\* The repository holds two sources of the class: services/ServiceFactory.ts,
\* whose instance methods keep what they construct in a field, and a second
\* one whose methods construct on every call.
FactoryFiles == {"services/ServiceFactory.ts", "ServiceFactory (second source)"}

FactoryInit ==
  /\ factoryFile \in FactoryFiles
  /\ backendProvider \in {Undefined, "supabase", "appwrite"}
  /\ cached = [service \in InstanceServices |-> 0]
  /\ constructed = [service \in FactoryServices |-> 0]
  /\ returned = NoAnswer
  /\ requests = 0

\* getCurrentBackend; the second source answers 'supabase' whatever the
\* environment says
getCurrentBackend ==
  IF factoryFile = "services/ServiceFactory.ts" THEN Or(backendProvider, "supabase")
  ELSE "supabase"

\* new Supabase...Service()
Construct(service) ==
  /\ constructed' = [constructed EXCEPT ![service] = @ + 1]
  /\ returned' = [service |-> service, instance |-> constructed[service] + 1, threw |-> FALSE]

\* !this.authService and its like: the field holds an instance
Held(service) == factoryFile = "services/ServiceFactory.ts" /\ cached[service] # 0

\* getAuthService, getDatabaseService, getProfileService, getStorageService:
\* the field holds an instance and it is returned
GetCachedService ==
  /\ requests < MaxRequests
  /\ \E service \in InstanceServices :
       /\ Held(service)
       /\ returned' = [service |-> service, instance |-> cached[service], threw |-> FALSE]
  /\ requests' = requests + 1
  /\ UNCHANGED <<nonFactoryVars, factoryFile, backendProvider, cached, constructed>>

\* the same methods when nothing is held: the service is constructed, and
\* services/ServiceFactory.ts keeps it in the field
GetInstanceService ==
  /\ requests < MaxRequests
  /\ getCurrentBackend = "supabase"
  /\ \E service \in InstanceServices :
       /\ ~Held(service)
       /\ Construct(service)
       /\ cached' = IF factoryFile = "services/ServiceFactory.ts"
                      THEN [cached EXCEPT ![service] = constructed[service] + 1]
                      ELSE cached
  /\ requests' = requests + 1
  /\ UNCHANGED <<nonFactoryVars, factoryFile, backendProvider>>

\* getTranscriptionService, getVoiceNoteService, getEntriesService,
\* getConversationsService, getMessagesService: return new ...Service()
GetStaticService ==
  /\ requests < MaxRequests
  /\ \E service \in StaticServices :
       /\ (service = "transcription" \/ getCurrentBackend # "appwrite")
       /\ Construct(service)
  /\ requests' = requests + 1
  /\ UNCHANGED <<nonFactoryVars, factoryFile, backendProvider, cached>>

\* the backend is not 'supabase': the method throws
GetServiceThrows ==
  /\ requests < MaxRequests
  /\ getCurrentBackend # "supabase"
  /\ \E service \in FactoryServices \ {"transcription"} :
       /\ (service \in InstanceServices => ~Held(service))
       /\ returned' = [service |-> service, instance |-> 0, threw |-> TRUE]
  /\ requests' = requests + 1
  /\ UNCHANGED <<nonFactoryVars, factoryFile, backendProvider, cached, constructed>>

FactoryNext ==
  \/ GetCachedService
  \/ GetInstanceService
  \/ GetStaticService
  \/ GetServiceThrows

InitFactory == FactoryInit /\ ChatIdle /\ TitleIdle /\ VoiceIdle /\ LikeIdle /\ SvcIdle /\ IpcIdle /\ CtxIdle
               /\ ExIdle
               /\ EcIdle
               /\ AiIdle
               /\ AuthIdle
               /\ RecIdle
               /\ DraftIdle

SpecFactory == InitFactory /\ [][FactoryNext]_vars

\* C14: the factory constructs at most one instance of each domain service,
\* and every later request is answered with that same instance.
C14_OneInstancePerService ==
  \A service \in FactoryServices :
    /\ constructed[service] <= 1
    /\ (returned.service = service /\ ~returned.threw) => returned.instance = 1

\* the same for the four services services/ServiceFactory.ts keeps in a field
HeldServicesConstructedOnce ==
  factoryFile = "services/ServiceFactory.ts" =>
    \A service \in InstanceServices :
      /\ constructed[service] <= 1
      /\ (returned.service = service /\ ~returned.threw) => returned.instance = 1

(***************************************************************************)
(* The main process: ipcMain.on('update-env-vars')                         *)
(***************************************************************************)
\* envVars as Object.entries lists it: the key/value pairs in insertion order
EnvPayloads ==
  { <<>>,
    << <<"DEFAULT_AI_PROVIDER", "deepseek">> >>,
    << <<"DEFAULT_AI_PROVIDER", "ollama">>, <<"LLM_API_URL_OLLAMA", "http://localhost:11434">> >>,
    << <<"LLM_API_URL_OLLAMA", "">>, <<"DEFAULT_AI_PROVIDER", "deepseek">> >> }

IpcInit ==
  /\ ipcQueue = <<>>
  /\ processEnv = [k \in EnvKeys |-> Undefined]
  /\ envFile = NoEnvFile
  /\ mainWindow \in BOOLEAN
  /\ rendererGot = <<>>
  /\ ipcPc = "idle"
  /\ ipcCur = <<>>
  /\ lastUpdate = <<>>
  /\ updates = 0

RECURSIVE SetEach(_, _)
\* Object.entries(envVars).forEach(([key, value]) => { process.env[key] = value })
SetEach(environment, pairs) ==
  IF pairs = <<>> THEN environment
  ELSE SetEach([environment EXCEPT ![Head(pairs)[1]] = Head(pairs)[2]], Tail(pairs))

\* the lines key="value" of the .env file, in the order of Object.entries
EnvContent(pairs) == [i \in 1..Len(pairs) |-> <<pairs[i][1], "=\"", pairs[i][2], "\"">>]

\* handleSave of the preferences page sends update-env-vars
SendUpdateEnvVars ==
  /\ updates < MaxUpdates
  /\ \E envVars \in EnvPayloads : ipcQueue' = Append(ipcQueue, envVars)
  /\ updates' = updates + 1
  /\ UNCHANGED <<nonIpcVars, processEnv, envFile, mainWindow, rendererGot, ipcPc, ipcCur,
                 lastUpdate>>

\* the handler receives a message and updates process.env
UpdateProcessEnv ==
  /\ ipcPc = "idle"
  /\ ipcQueue # <<>>
  /\ ipcCur' = Head(ipcQueue)
  /\ ipcQueue' = Tail(ipcQueue)
  /\ processEnv' = SetEach(processEnv, Head(ipcQueue))
  /\ lastUpdate' = <<"process.env">>
  /\ ipcPc' = "write"
  /\ UNCHANGED <<nonIpcVars, envFile, mainWindow, rendererGot, updates>>

\* a bug: the catch block notifies the renderer all the same
NotifyOnWriteError == "notify"

\* catch (error) { console.error(...) }: the handler is over
OnWriteError == "idle"

\* fs.writeFileSync(.env, envContent) returns
WriteEnvFileSucceeds ==
  /\ ipcPc = "write"
  /\ envFile' = EnvContent(ipcCur)
  /\ lastUpdate' = Append(lastUpdate, "file")
  /\ ipcPc' = "notify"
  /\ UNCHANGED <<nonIpcVars, ipcQueue, processEnv, mainWindow, rendererGot, ipcCur, updates>>

\* fs.writeFileSync throws
WriteEnvFileFails ==
  /\ ipcPc = "write"
  /\ lastUpdate' = Append(lastUpdate, "write failed")
  /\ ipcPc' = OnWriteError
  /\ UNCHANGED <<nonIpcVars, ipcQueue, processEnv, envFile, mainWindow, rendererGot, ipcCur,
                 updates>>

\* if (mainWindow) mainWindow.webContents.send('env-vars-updated', envVars)
NotifyRenderer ==
  /\ ipcPc = "notify"
  /\ IF mainWindow
       THEN /\ rendererGot' = Append(rendererGot, ipcCur)
            /\ lastUpdate' = Append(lastUpdate, "env-vars-updated")
       ELSE UNCHANGED <<rendererGot, lastUpdate>>
  /\ ipcPc' = "idle"
  /\ UNCHANGED <<nonIpcVars, ipcQueue, processEnv, envFile, mainWindow, ipcCur, updates>>

\* mainWindow.on('closed', () => { mainWindow = null }), between two handlers
WindowClosed ==
  /\ ipcPc = "idle"
  /\ mainWindow
  /\ mainWindow' = FALSE
  /\ UNCHANGED <<nonIpcVars, ipcQueue, processEnv, envFile, rendererGot, ipcPc, ipcCur,
                 lastUpdate, updates>>

IpcNext ==
  \/ SendUpdateEnvVars
  \/ UpdateProcessEnv
  \/ WriteEnvFileSucceeds
  \/ WriteEnvFileFails
  \/ NotifyRenderer
  \/ WindowClosed

InitIpc == IpcInit /\ ChatIdle /\ TitleIdle /\ VoiceIdle /\ LikeIdle /\ SvcIdle /\ FactoryIdle /\ CtxIdle
           /\ ExIdle
           /\ EcIdle
           /\ AiIdle
           /\ AuthIdle
           /\ RecIdle
           /\ DraftIdle

SpecIpc == InitIpc /\ [][IpcNext]_vars

\* every pair of the message is in process.env
ProcessEnvHolds(pairs) ==
  \A i \in 1..Len(pairs) :
    (\A j \in (i + 1)..Len(pairs) : pairs[j][1] # pairs[i][1]) =>
      processEnv[pairs[i][1]] = pairs[i][2]

\* C15: the handler of update-env-vars sets process.env for every pair, then
\* writes the pairs to the env file, and only then sends env-vars-updated with
\* the same pairs, and that only when a window exists; after a failed write it
\* sends nothing. Every env-vars-updated message sent is the pairs of a handled
\* update.
C15_EnvUpdateOrder ==
  /\ lastUpdate \in { <<>>, <<"process.env">>, <<"process.env", "file">>,
                      <<"process.env", "write failed">>,
                      <<"process.env", "file", "env-vars-updated">> }
  /\ Len(lastUpdate) >= 1 => ProcessEnvHolds(ipcCur)
  /\ (Len(lastUpdate) >= 2 /\ lastUpdate[2] = "file") => envFile = EnvContent(ipcCur)
  /\ Len(lastUpdate) = 3 =>
       /\ Len(rendererGot) >= 1
       /\ rendererGot[Len(rendererGot)] = ipcCur
  /\ Len(rendererGot) <= updates - Len(ipcQueue)

\* C15 witness: an update of two pairs went through all three steps
C15_Witness ==
  /\ lastUpdate = <<"process.env", "file", "env-vars-updated">>
  /\ Len(ipcCur) = 2
  /\ ipcPc = "idle"

\* the steps of the handler, as an order on what each step changes: the renderer
\* is sent a message only by the step that follows a successful write, and that
\* step needs a window
SendOnlyAfterWrite ==
  [][rendererGot' # rendererGot =>
       /\ ipcPc = "notify"
       /\ mainWindow
       /\ lastUpdate = <<"process.env", "file">>
       /\ rendererGot' = Append(rendererGot, ipcCur)]_vars

(***************************************************************************)
(* buildEntriesContext                                                     *)
(***************************************************************************)
\* The text is the sequence of its lines and a line the tuple of its parts.
NoEntriesText == << <<"No journal entries available.">> >>

BlankLine == <<"">>

\* '='.repeat(50)
DelimiterLine == <<"==================================================">>

\* toLocaleDateString('en-US', ...): the day a time falls on, two times a day
FormattedDate(createdAt) == ToString((createdAt + 1) \div 2)

\* what an entry's voicenotes field can hold: nothing (Absent), or an array
\* <<array>> of no voice note, of voice notes with an empty transcript or none,
\* or of voice notes two of which have a transcript
VoiceNoteLists(entryTitle) ==
  { Absent,
    << <<>> >>,
    << << [transcript |-> ""], [transcript |-> Undefined] >> >>,
    << << [transcript |-> entryTitle \o " said"], [transcript |-> ""],
          [transcript |-> entryTitle \o " sang"] >> >> }

EntryTitleOf == <<"Monday", "Tuesday", "Wednesday", "Thursday", "Friday">>

\* the arrays of entries handed to the function: the i-th entry has the i-th
\* title, any createdAt and any list of voice notes
EntryArrays ==
  UNION { { [i \in 1..n |-> [title |-> EntryTitleOf[i], content |-> EntryTitleOf[i] \o " text",
                            createdAt |-> times[i], voicenotes |-> notes[i]]] :
              times \in [1..n -> 1..MaxTime],
              notes \in { f \in [1..n -> UNION {VoiceNoteLists(EntryTitleOf[j]) : j \in 1..n}] :
                            \A i \in 1..n : f[i] \in VoiceNoteLists(EntryTitleOf[i]) } } :
          n \in 0..MaxEntries }

\* a bug: the comparator of an oldest-first sort
OldestFirst(a, b) == a.createdAt - b.createdAt

\* (a, b) => new Date(b.createdAt).getTime() - new Date(a.createdAt).getTime()
NewestFirst(a, b) == b.createdAt - a.createdAt

RECURSIVE InsertSorted(_, _)
\* x placed behind the elements the comparator does not put after it
InsertSorted(x, sorted) ==
  IF sorted = <<>> THEN <<x>>
  ELSE IF NewestFirst(Head(sorted), x) > 0 THEN <<x>> \o sorted
  ELSE <<Head(sorted)>> \o InsertSorted(x, Tail(sorted))

RECURSIVE SortEntries(_)
\* [...entries].sort(comparator): a stable sort of a copy
SortEntries(list) ==
  IF list = <<>> THEN <<>>
  ELSE InsertSorted(list[Len(list)], SortEntries(SubSeq(list, 1, Len(list) - 1)))

\* filter(vn => vn.transcript)
WithTranscript(voicenoteList) == SelectSeq(voicenoteList, LAMBDA vn : Truthy(vn.transcript))

RECURSIVE JoinLines(_, _)
\* join('\n\n') of pieces that are sequences of lines: a blank line between two
JoinLines(pieces, k) ==
  IF k > Len(pieces) THEN <<>>
  ELSE IF k = Len(pieces) THEN pieces[k]
  ELSE pieces[k] \o <<BlankLine>> \o JoinLines(pieces, k + 1)

\* the lines of the transcripts of an entry, <<>> when the joined text is empty
TranscriptLines(entry) ==
  IF entry.voicenotes = Absent THEN <<>>
  ELSE LET kept == WithTranscript(entry.voicenotes[1])
       IN JoinLines([i \in 1..Len(kept) |-> << <<"Voice Note Transcript: ", kept[i].transcript>> >>], 1)

\* the template of one entry
EntryBlock(entry, index) ==
  << <<"ENTRY ", ToString(index), entry.title, FormattedDate(entry.createdAt)>>,
     <<"Content: ", entry.content>> >>
  \o (IF TranscriptLines(entry) # <<>> THEN <<BlankLine>> \o TranscriptLines(entry)
                                      ELSE <<BlankLine>>)
  \o <<DelimiterLine>>

buildEntriesContext(list) ==
  IF list = <<>> THEN NoEntriesText
  ELSE LET sortedEntries == SortEntries(list)
       IN JoinLines([i \in 1..Len(sortedEntries) |-> EntryBlock(sortedEntries[i], i)], 1)

CtxInit ==
  /\ ctxEntries \in EntryArrays
  /\ ctxInput = ctxEntries
  /\ ctxText = <<>>
  /\ ctxDone = FALSE

\* the function is applied; the array it was given is left as it was
BuildEntriesContext ==
  /\ ~ctxDone
  /\ ctxText' = buildEntriesContext(ctxEntries)
  /\ ctxDone' = TRUE
  /\ UNCHANGED <<nonCtxVars, ctxEntries, ctxInput>>

CtxNext == BuildEntriesContext

InitCtx == CtxInit /\ ChatIdle /\ TitleIdle /\ VoiceIdle /\ LikeIdle /\ SvcIdle /\ FactoryIdle /\ IpcIdle
           /\ ExIdle
           /\ EcIdle
           /\ AiIdle
           /\ AuthIdle
           /\ RecIdle
           /\ DraftIdle

SpecCtx == InitCtx /\ [][CtxNext]_vars

\* the positions of the header lines of the text, and the k-th of them
HeaderLines == {i \in 1..Len(ctxText) : ctxText[i][1] = "ENTRY "}

HeaderLine(k) == CHOOSE i \in HeaderLines : Cardinality({j \in HeaderLines : j <= i}) = k

\* the lines of the k-th block: from its header to the line before the next
BlockLines(k) ==
  SubSeq(ctxText, HeaderLine(k),
         IF k = Cardinality(HeaderLines) THEN Len(ctxText) ELSE HeaderLine(k + 1) - 1)

\* the entry of the input whose title the k-th header carries
RenderedEntry(k) ==
  CHOOSE e \in {ctxInput[i] : i \in 1..Len(ctxInput)} : e.title = ctxText[HeaderLine(k)][3]

\* the transcripts of an entry that are not empty, in the order of its voice notes
NonEmptyTranscripts(e) ==
  IF e.voicenotes = Absent THEN <<>>
  ELSE LET kept == SelectSeq(e.voicenotes[1], LAMBDA vn : vn.transcript \notin {Undefined, Null, ""})
       IN [i \in 1..Len(kept) |-> kept[i].transcript]

\* the transcripts a block shows, in order
ShownTranscripts(block) ==
  LET shown == SelectSeq(block, LAMBDA line : line[1] = "Voice Note Transcript: ")
  IN [i \in 1..Len(shown) |-> shown[i][2]]

\* the k-th block is that of entry e, numbered k, and ends with the delimiter
\* line, which a blank line parts from the block that follows
BlockRenders(k, e, last) ==
  LET block == BlockLines(k)
      body == IF last THEN block ELSE SubSeq(block, 1, Len(block) - 1)
  IN /\ block[1] = <<"ENTRY ", ToString(k), e.title, FormattedDate(e.createdAt)>>
     /\ block[2] = <<"Content: ", e.content>>
     /\ ShownTranscripts(block) = NonEmptyTranscripts(e)
     /\ body[Len(body)] = DelimiterLine
     /\ Cardinality({i \in 1..Len(block) : block[i] = DelimiterLine}) = 1
     /\ (~last => block[Len(block)] = BlankLine)

\* C19: buildEntriesContext renders every entry of a non-empty list exactly
\* once, newest first by createdAt and numbered ENTRY 1, 2, ... in that order;
\* a block holds the entry's title, date and content and its non-empty
\* voice-note transcripts only, and ends with the delimiter line; the list
\* handed in keeps its order; an empty list gives "No journal entries
\* available.".
C19_EntriesContext ==
  ctxDone =>
    /\ ctxEntries = ctxInput
    /\ ctxInput = <<>> => ctxText = NoEntriesText
    /\ ctxInput # <<>> =>
         /\ Cardinality(HeaderLines) = Len(ctxInput)
         /\ {ctxText[i][3] : i \in HeaderLines} = {ctxInput[i].title : i \in 1..Len(ctxInput)}
         /\ \A k \in 1..Len(ctxInput) : BlockRenders(k, RenderedEntry(k), k = Len(ctxInput))
         /\ \A k \in 1..(Len(ctxInput) - 1) :
              RenderedEntry(k).createdAt >= RenderedEntry(k + 1).createdAt

\* C19 witness: three entries handed in oldest first have been rendered, the
\* newest of them with two transcripts shown out of three voice notes
C19_Witness ==
  /\ ctxDone
  /\ Len(ctxInput) = 3
  /\ \A i \in 1..3 : ctxInput[i].createdAt = i
  /\ ctxInput[3].voicenotes # Absent
  /\ Len(ctxInput[3].voicenotes[1]) = 3
  /\ ctxText[1][3] = "Wednesday"
  /\ Len(ShownTranscripts(BlockLines(1))) = 2

(***************************************************************************)
(* SupabaseMessagesService.createExchange, on one conversation             *)
(***************************************************************************)
\* a conversation that createExchange alone writes to starts without messages
ExInit ==
  /\ exMessages = <<>>
  /\ exCall = [h \in Handlers |-> "idle"]
  /\ exCalls = 0
  /\ exInTurn = TRUE

CreateExchange ==
  /\ exCalls < MaxExchanges
  /\ \E h \in Handlers :
       /\ exCall[h] = "idle"
       /\ exCall' = [exCall EXCEPT ![h] = "insert user"]
       /\ exInTurn' = (exInTurn /\ \A other \in Handlers : exCall[other] = "idle")
  /\ exCalls' = exCalls + 1
  /\ UNCHANGED <<nonExVars, exMessages>>

\* insert({author: 'user', ...}) is accepted
ExchangeUserInserted ==
  /\ \E h \in Handlers :
       /\ exCall[h] = "insert user"
       /\ exCall' = [exCall EXCEPT ![h] = "insert ai"]
  /\ exMessages' = Append(exMessages, "user")
  /\ UNCHANGED <<nonExVars, exCalls, exInTurn>>

\* if (userError) throw userError: the catch returns {data: [], error}
ExchangeUserRefused ==
  /\ \E h \in Handlers :
       /\ exCall[h] = "insert user"
       /\ exCall' = [exCall EXCEPT ![h] = "idle"]
  /\ exInTurn' = FALSE
  /\ UNCHANGED <<nonExVars, exMessages, exCalls>>

\* insert({author: 'ai', ...}) is accepted
ExchangeAiInserted ==
  /\ \E h \in Handlers :
       /\ exCall[h] = "insert ai"
       /\ exCall' = [exCall EXCEPT ![h] = "update conversation"]
  /\ exMessages' = Append(exMessages, "ai")
  /\ UNCHANGED <<nonExVars, exCalls, exInTurn>>

\* if (aiError) throw aiError: the user message stays
ExchangeAiRefused ==
  /\ \E h \in Handlers :
       /\ exCall[h] = "insert ai"
       /\ exCall' = [exCall EXCEPT ![h] = "idle"]
  /\ exInTurn' = FALSE
  /\ UNCHANGED <<nonExVars, exMessages, exCalls>>

\* the update of updatedAt is awaited and its answer is not read
ExchangeReturns ==
  /\ \E h \in Handlers :
       /\ exCall[h] = "update conversation"
       /\ exCall' = [exCall EXCEPT ![h] = "idle"]
  /\ UNCHANGED <<nonExVars, exMessages, exCalls, exInTurn>>

ExNext ==
  \/ CreateExchange
  \/ ExchangeUserInserted
  \/ ExchangeUserRefused
  \/ ExchangeAiInserted
  \/ ExchangeAiRefused
  \/ ExchangeReturns

InitEx == ExInit /\ ChatIdle /\ TitleIdle /\ VoiceIdle /\ LikeIdle /\ SvcIdle /\ FactoryIdle
          /\ IpcIdle /\ CtxIdle
          /\ EcIdle
          /\ AiIdle
          /\ AuthIdle
          /\ RecIdle
          /\ DraftIdle

SpecEx == InitEx /\ [][ExNext]_vars

\* the author at position i of a conversation that alternates from a user message
AlternatingAuthor(i) == IF i % 2 = 1 THEN "user" ELSE "ai"

\* C22: in a conversation written through createExchange alone the messages in
\* creation order alternate user, ai, user, ai, ... from a user message, after
\* any sequence of createExchange calls, also when one of the two inserts of a
\* call fails and when calls on the conversation overlap.
C22_MessagesAlternate ==
  \A i \in 1..Len(exMessages) : exMessages[i] = AlternatingAuthor(i)

\* the same for calls that run one after the other and whose inserts succeed
ExchangesInTurnAlternate == exInTurn => C22_MessagesAlternate

(***************************************************************************)
(* EntryAIScreen: the conversation about one entry of the signed-in user   *)
(***************************************************************************)
\* the screen before it is opened for an entry nobody has chatted about
EcInit ==
  /\ ecConversations = {}
  /\ ecCurrent = Absent
  /\ ecPc = "closed"
  /\ ecSubmissions = 0
  /\ ecLookupFailed = FALSE

\* .single(): the row when the filter matches exactly one row, and the error
\* PGRST116 when it matches none or several, which the service answers with
\* {data: null, error: null}
Single(rows) == IF Cardinality(rows) = 1 THEN <<CHOOSE row \in rows : TRUE>> ELSE Absent

\* the screen is mounted: currentConversation starts at null and fetchEntry
\* looks for a conversation about the entry
EntryScreenOpened ==
  /\ ecPc \in {"closed", "idle"}
  /\ ecCurrent' = Absent
  /\ ecPc' = "fetchEntry"
  /\ UNCHANGED <<nonEcVars, ecConversations, ecSubmissions, ecLookupFailed>>

\* handleSubmit: continueConversation with a current conversation,
\* chatWithEntry without one
EntrySubmit ==
  /\ ecPc = "idle"
  /\ ecSubmissions < MaxSubmissions
  /\ ecSubmissions' = ecSubmissions + 1
  /\ ecPc' = IF ecCurrent # Absent THEN "continueConversation" ELSE "chatWithEntry"
  /\ UNCHANGED <<nonEcVars, ecConversations, ecCurrent, ecLookupFailed>>

\* continueConversation returns, with or without success: its exchange goes to
\* the conversation named and no conversation is created
EntryConversationContinued ==
  /\ ecPc = "continueConversation"
  /\ ecPc' = "idle"
  /\ UNCHANGED <<nonEcVars, ecConversations, ecCurrent, ecSubmissions, ecLookupFailed>>

\* chatWithEntry returns success: false after the dispatch failed; nothing is
\* written and the lookup is skipped
EntryChatFailed ==
  /\ ecPc = "chatWithEntry"
  /\ ecPc' = "idle"
  /\ UNCHANGED <<nonEcVars, ecConversations, ecCurrent, ecSubmissions, ecLookupFailed>>

\* chatWithEntry returns success: true and saveConversation has created a
\* conversation of contextType "entries" about the entry (whether or not the
\* exchange was then written)
EntryChatSaved ==
  /\ ecPc = "chatWithEntry"
  /\ ecConversations' = ecConversations \cup {ecSubmissions}
  /\ ecPc' = "lookup"
  /\ UNCHANGED <<nonEcVars, ecCurrent, ecSubmissions, ecLookupFailed>>

\* chatWithEntry returns success: true and saveConversation has created
\* nothing (no user, or createConversation refused): the error is only logged
EntryChatNotSaved ==
  /\ ecPc = "chatWithEntry"
  /\ ecPc' = "lookup"
  /\ UNCHANGED <<nonEcVars, ecConversations, ecCurrent, ecSubmissions, ecLookupFailed>>

\* getConversationByEntryId answers: if (conversationResult.data)
\* setCurrentConversation(conversationResult.data)
EntryLookupAnswered ==
  /\ ecPc \in {"fetchEntry", "lookup"}
  /\ ecCurrent' = IF Single(ecConversations) # Absent THEN Single(ecConversations)
                  ELSE ecCurrent
  /\ ecPc' = "idle"
  /\ UNCHANGED <<nonEcVars, ecConversations, ecSubmissions, ecLookupFailed>>

\* getConversationByEntryId ends in {data: null, error}: no user, a database
\* error, or the messages of the conversation could not be read
EntryLookupFailed ==
  /\ ecPc \in {"fetchEntry", "lookup"}
  /\ ecLookupFailed' = TRUE
  /\ ecPc' = "idle"
  /\ UNCHANGED <<nonEcVars, ecConversations, ecCurrent, ecSubmissions>>

EcNext ==
  \/ EntryScreenOpened
  \/ EntrySubmit
  \/ EntryConversationContinued
  \/ EntryChatFailed
  \/ EntryChatSaved
  \/ EntryChatNotSaved
  \/ EntryLookupAnswered
  \/ EntryLookupFailed

InitEc == EcInit /\ ChatIdle /\ TitleIdle /\ VoiceIdle /\ LikeIdle /\ SvcIdle /\ FactoryIdle
          /\ IpcIdle /\ CtxIdle /\ ExIdle
          /\ AiIdle
          /\ AuthIdle
          /\ RecIdle
          /\ DraftIdle

SpecEc == InitEc /\ [][EcNext]_vars

\* C25: for the user and the entry at most one conversation of contextType
\* "entries" whose contextReference is the entry exists after any sequence of
\* submissions on the entry-chat screen, also when the persistence of a
\* submission fails or the getConversationByEntryId lookup that follows it fails
\* or finds nothing; so getConversationByEntryId returns that conversation
\* whenever one exists.
C25_OneConversationPerEntry ==
  /\ Cardinality(ecConversations) <= 1
  /\ ecConversations # {} => Single(ecConversations) # Absent

\* the same while no lookup has ended in an error
OneConversationWhileLookupsAnswer ==
  ~ecLookupFailed => Cardinality(ecConversations) <= 1

(***************************************************************************)
(* AIScreen: the current conversation                                      *)
(***************************************************************************)
NoConversation == 0

\* a conversation the user has from an earlier session
OldConversation == [id |-> 1, updatedAt |-> 1]

\* the screen is mounted: useEffect calls loadCurrentConversation
AiInit ==
  /\ aiTable \in {{}, {OldConversation}}
  /\ aiCurrent = Absent
  /\ aiPc = "idle"
  /\ aiLoads = 1
  /\ aiSubmissions = 0
  /\ aiStarted = Absent
  /\ aiAppended = {}

\* new Date().toISOString() of a write: later than every updatedAt stored
Now == 1 + Cardinality(aiTable) + aiSubmissions

\* [...result.data].sort((a, b) => b.updatedAt - a.updatedAt)[0]
MostRecent(rows) == CHOOSE row \in rows : \A other \in rows : other.updatedAt <= row.updatedAt

\* loadCurrentConversation: getConversations answers and the most recently
\* updated conversation, when there is one, becomes the current one
AiLoadAnswered ==
  /\ aiLoads > 0
  /\ aiLoads' = aiLoads - 1
  /\ aiCurrent' = IF aiTable # {} THEN <<MostRecent(aiTable).id>> ELSE aiCurrent
  /\ UNCHANGED <<nonAiVars, aiTable, aiPc, aiSubmissions, aiStarted, aiAppended>>

\* getConversations returns {data: [], error}: nothing is set
AiLoadFailed ==
  /\ aiLoads > 0
  /\ aiLoads' = aiLoads - 1
  /\ UNCHANGED <<nonAiVars, aiTable, aiCurrent, aiPc, aiSubmissions, aiStarted, aiAppended>>

\* handleNewConversation: setCurrentConversation(null)
AiNewConversation ==
  /\ aiPc = "idle"
  /\ aiCurrent # Absent
  /\ aiCurrent' = Absent
  /\ aiStarted' = Absent
  /\ aiAppended' = {}
  /\ UNCHANGED <<nonAiVars, aiTable, aiPc, aiLoads, aiSubmissions>>

\* handleSubmit: continueConversation with a current conversation, newChat
\* without one
AiSubmit ==
  /\ aiPc = "idle"
  /\ aiSubmissions < MaxSubmissions
  /\ aiSubmissions' = aiSubmissions + 1
  /\ aiPc' = IF aiCurrent # Absent THEN "continueConversation" ELSE "newChat"
  /\ UNCHANGED <<nonAiVars, aiTable, aiCurrent, aiLoads, aiStarted, aiAppended>>

\* continueConversation returns after createExchange has written the exchange
\* to the current conversation and set its updatedAt
AiContinueSaved ==
  /\ aiPc = "continueConversation"
  /\ aiTable' = {IF row.id = aiCurrent[1] THEN [row EXCEPT !.updatedAt = Now] ELSE row :
                   row \in aiTable}
  /\ aiAppended' = IF aiStarted # Absent THEN aiAppended \cup {aiCurrent[1]} ELSE aiAppended
  /\ aiPc' = "idle"
  /\ UNCHANGED <<nonAiVars, aiCurrent, aiLoads, aiSubmissions, aiStarted>>

\* continueConversation returns and nothing was written: the dispatch failed,
\* or the persistence step did
AiContinueNotSaved ==
  /\ aiPc = "continueConversation"
  /\ aiPc' = "idle"
  /\ UNCHANGED <<nonAiVars, aiTable, aiCurrent, aiLoads, aiSubmissions, aiStarted, aiAppended>>

\* what handleSubmit does with a successful newChat: the conversation created
\* (NoConversation when none was) is the one of the first prompt, or one more
\* that a later prompt went to; loadCurrentConversation is called, not awaited
AiNewChatSucceeded(created) ==
  /\ aiStarted' = IF aiStarted = Absent THEN <<created>> ELSE aiStarted
  /\ aiAppended' = IF aiStarted # Absent /\ created # NoConversation
                     THEN aiAppended \cup {created} ELSE aiAppended
  /\ aiLoads' = aiLoads + 1
  /\ aiPc' = "idle"

\* newChat returns success: false: the dispatch failed and nothing is loaded
AiNewChatFailed ==
  /\ aiPc = "newChat"
  /\ aiPc' = "idle"
  /\ UNCHANGED <<nonAiVars, aiTable, aiCurrent, aiLoads, aiSubmissions, aiStarted, aiAppended>>

\* newChat returns success: true and saveConversation has created a conversation
AiNewChatSaved ==
  /\ aiPc = "newChat"
  /\ aiTable' = aiTable \cup {[id |-> 1 + aiSubmissions, updatedAt |-> Now]}
  /\ AiNewChatSucceeded(1 + aiSubmissions)
  /\ UNCHANGED <<nonAiVars, aiCurrent, aiSubmissions>>

\* newChat returns success: true and saveConversation has created nothing: its
\* error is logged and not returned
AiNewChatNotSaved ==
  /\ aiPc = "newChat"
  /\ AiNewChatSucceeded(NoConversation)
  /\ UNCHANGED <<nonAiVars, aiTable, aiCurrent, aiSubmissions>>

AiNext ==
  \/ AiLoadAnswered
  \/ AiLoadFailed
  \/ AiNewConversation
  \/ AiSubmit
  \/ AiContinueSaved
  \/ AiContinueNotSaved
  \/ AiNewChatFailed
  \/ AiNewChatSaved
  \/ AiNewChatNotSaved

InitAi == AiInit /\ ChatIdle /\ TitleIdle /\ VoiceIdle /\ LikeIdle /\ SvcIdle /\ FactoryIdle
          /\ IpcIdle /\ CtxIdle /\ ExIdle /\ EcIdle
          /\ AuthIdle
          /\ RecIdle
          /\ DraftIdle

SpecAi == InitAi /\ [][AiNext]_vars

\* C26: once a first prompt submitted without a current conversation has
\* returned success, the conversation that becomes current is the one created
\* for that prompt, and every later prompt is written to that conversation and
\* to no other, also when the new conversation could not be saved.
C26_NewChatBecomesCurrent ==
  aiStarted # Absent =>
    /\ (aiPc = "idle" /\ aiLoads = 0) => aiCurrent \in {Absent, aiStarted}
    /\ aiAppended \subseteq {aiStarted[1]}

\* when the conversation was saved and nothing else has been written since,
\* the load that follows makes it the current one
SavedNewChatIsMostRecent ==
  (aiStarted # Absent /\ aiStarted # <<NoConversation>> /\ aiAppended = {} /\ aiTable # {}) =>
    MostRecent(aiTable).id = aiStarted[1]

(***************************************************************************)
(* withAuth(Component, requireAuth = true) under AuthProvider              *)
(***************************************************************************)
Users == {Null, "no id", "u1"}

\* user && user.id
HasId(user) == user \notin {Null, "no id"}

\* AuthProvider and the wrapper are mounted: loading starts at true and the
\* provider's effect has called checkUser
AuthInit ==
  /\ authUser = Null
  /\ authLoading = TRUE
  /\ authChecking = TRUE
  /\ authCheckDone = FALSE
  /\ authView = "unmounted"
  /\ authPhase = "render"
  /\ authDeps = <<>>
  /\ authNavigated = "none"
  /\ authEvents = 0

\* a bug: the user is not looked at
RenderWithoutUser(loading, checkDone, user) ==
  IF loading \/ ~checkDone THEN "loading indicator" ELSE "component"

\* what WithAuthComponent returns
WithAuthRender(loading, checkDone, user) ==
  IF loading \/ ~checkDone THEN "loading indicator"
  ELSE IF ~HasId(user) THEN "nothing"
  ELSE "component"

\* React renders the wrapper; the effect follows when loading or user changed
AuthRender ==
  /\ authPhase = "render"
  /\ authView' = WithAuthRender(authLoading, authCheckDone, authUser)
  /\ authPhase' = IF authDeps # <<authLoading, authUser>> THEN "effect" ELSE "settled"
  /\ UNCHANGED <<nonAuthVars, authUser, authLoading, authChecking, authCheckDone, authDeps,
                 authNavigated, authEvents>>

\* the effect: if (!loading) { setInitialCheckDone(true); if (!user || !user.id)
\* navigate('/auth') }
AuthEffect ==
  /\ authPhase = "effect"
  /\ authDeps' = <<authLoading, authUser>>
  /\ authCheckDone' = (authCheckDone \/ ~authLoading)
  /\ authNavigated' = IF ~authLoading /\ ~HasId(authUser) THEN "/auth" ELSE "none"
  /\ authPhase' = IF authCheckDone' # authCheckDone THEN "render" ELSE "settled"
  /\ UNCHANGED <<nonAuthVars, authUser, authLoading, authChecking, authView, authEvents>>

\* checkUser resumes: setUser(currentUser), or the catch when getCurrentUser
\* threw, then setLoading(false)
CheckUserAnswered ==
  /\ authPhase = "settled"
  /\ authChecking
  /\ \E answer \in Users \cup {"threw"} :
       authUser' = IF answer = "threw" THEN authUser ELSE answer
  /\ authLoading' = FALSE
  /\ authChecking' = FALSE
  /\ authPhase' = "render"
  /\ UNCHANGED <<nonAuthVars, authCheckDone, authView, authDeps, authNavigated, authEvents>>

\* checkUser is called again (register): setLoading(true)
CheckUserCalled ==
  /\ authPhase = "settled"
  /\ ~authChecking
  /\ authEvents < MaxAuthEvents
  /\ authEvents' = authEvents + 1
  /\ authLoading' = TRUE
  /\ authChecking' = TRUE
  /\ authPhase' = "render"
  /\ UNCHANGED <<nonAuthVars, authUser, authCheckDone, authView, authDeps, authNavigated>>

\* login, logout, refreshUser and updateProfile: setUser(...)
UserSet ==
  /\ authPhase = "settled"
  /\ authEvents < MaxAuthEvents
  /\ authEvents' = authEvents + 1
  /\ \E user \in Users \ {authUser} : authUser' = user
  /\ authPhase' = "render"
  /\ UNCHANGED <<nonAuthVars, authLoading, authChecking, authCheckDone, authView, authDeps,
                 authNavigated>>

AuthNext ==
  \/ AuthRender
  \/ AuthEffect
  \/ CheckUserAnswered
  \/ CheckUserCalled
  \/ UserSet

InitAuth == AuthInit /\ ChatIdle /\ TitleIdle /\ VoiceIdle /\ LikeIdle /\ SvcIdle /\ FactoryIdle
            /\ IpcIdle /\ CtxIdle /\ ExIdle /\ EcIdle /\ AiIdle
            /\ RecIdle
            /\ DraftIdle

SpecAuth == InitAuth /\ [][AuthNext]_vars

\* the view on screen is the render of the present state
Rendered == authPhase # "render"

\* the wrapped component is on screen only when the check has finished and the
\* user has an id
ComponentOnlyForUser ==
  (Rendered /\ authView = "component") => (~authLoading /\ HasId(authUser))

\* C27 as stated: the wrapped component is rendered only when the check has
\* finished (loading is false) and the user exists with an id; in every state
\* where the check has finished and there is no such user, the wrapper renders
\* nothing and navigates to /auth.
C27_Original ==
  /\ ComponentOnlyForUser
  /\ (Rendered /\ ~authLoading /\ ~HasId(authUser)) =>
       (authView = "nothing" /\ (authPhase = "settled" => authNavigated = "/auth"))

\* C27 amended: the wrapped component is rendered only when the check has
\* finished and the user exists with an id. When the check has finished and
\* there is no such user the component is not rendered; the wrapper renders
\* nothing once its effect has set initialCheckDone, and the loading indicator
\* in the render before that; when the effect has run for that state it has
\* navigated to /auth.
C27_WithAuth ==
  /\ ComponentOnlyForUser
  /\ (Rendered /\ ~authLoading /\ ~HasId(authUser)) =>
       /\ authView = IF authCheckDone THEN "nothing" ELSE "loading indicator"
       /\ authPhase = "settled" => (authView = "nothing" /\ authNavigated = "/auth")

\* C27 witness: the component was on screen for a user, the user was then set
\* to null and the wrapper has rendered nothing and navigated to /auth
C27_Witness ==
  /\ authPhase = "settled"
  /\ ~authLoading
  /\ authUser = Null
  /\ authView = "nothing"
  /\ authNavigated = "/auth"
  /\ authEvents > 0

(***************************************************************************)
(* VoiceNoteRecorder                                                       *)
(***************************************************************************)
\* the component is mounted with open = false
RecInit ==
  /\ recOpen = FALSE
  /\ recPermission = FALSE
  /\ recorder = "none"
  /\ recCaptured = FALSE
  /\ recStopEvent = FALSE
  /\ recTimer = FALSE
  /\ isRecording = FALSE
  /\ duration = 0
  /\ recordingBlob = FALSE
  /\ isPlaying = FALSE
  /\ playbackPosition = 0
  /\ recCompleted = "none"
  /\ recRecorded = FALSE

\* cleanup(), run by React with the isRecording of the render that set the
\* effect up: stop the recorder if (mediaRecorderRef.current && isRecording),
\* clear the interval, pause the audio, reset the state
Cleanup(capturedIsRecording) ==
  /\ recorder' = IF recorder = "recording" /\ capturedIsRecording THEN "inactive" ELSE recorder
  /\ recStopEvent' = (recStopEvent \/ (recorder = "recording" /\ capturedIsRecording))
  /\ recTimer' = FALSE
  /\ isRecording' = FALSE
  /\ duration' = 0
  /\ recordingBlob' = FALSE
  /\ isPlaying' = FALSE
  /\ playbackPosition' = 0

\* open becomes true: the cleanup of the previous effect runs, then the effect
\* calls requestPermissions; the new cleanup closes over this render's state
RecorderOpened ==
  /\ ~recOpen
  /\ recOpen' = TRUE
  /\ Cleanup(recCaptured)
  /\ recCaptured' = isRecording
  /\ recPermission' = TRUE
  /\ UNCHANGED <<nonRecVars, recCompleted, recRecorded>>

\* getUserMedia resolves: setupMediaRecorder stores a new MediaRecorder
PermissionGranted ==
  /\ recPermission
  /\ recPermission' = FALSE
  /\ recorder' = "inactive"
  /\ UNCHANGED <<nonRecVars, recOpen, recCaptured, recStopEvent, recTimer, isRecording,
                 duration, recordingBlob, isPlaying, playbackPosition, recCompleted,
                 recRecorded>>

\* getUserMedia rejects: setError
PermissionDenied ==
  /\ recPermission
  /\ recPermission' = FALSE
  /\ UNCHANGED <<nonRecVars, recOpen, recorder, recCaptured, recStopEvent, recTimer,
                 isRecording, duration, recordingBlob, isPlaying, playbackPosition,
                 recCompleted, recRecorded>>

\* startRecording, offered while there is no blob and isRecording is false;
\* without a recorder it sets the error, and start() throws on a recorder that
\* is recording
StartRecording ==
  /\ recOpen /\ ~isRecording /\ ~recordingBlob
  /\ IF recorder = "inactive"
       THEN /\ recorder' = "recording"
            /\ isRecording' = TRUE
            /\ duration' = 0
            /\ recordingBlob' = FALSE
            /\ recTimer' = TRUE
       ELSE UNCHANGED <<recorder, isRecording, duration, recordingBlob, recTimer>>
  /\ UNCHANGED <<nonRecVars, recOpen, recPermission, recCaptured, recStopEvent, isPlaying,
                 playbackPosition, recCompleted, recRecorded>>

\* the interval fires: setDuration((Date.now() - startTime) / 1000)
TimerFires ==
  /\ recTimer
  /\ duration' = 1
  /\ UNCHANGED <<nonRecVars, recOpen, recPermission, recorder, recCaptured, recStopEvent,
                 recTimer, isRecording, recordingBlob, isPlaying, playbackPosition,
                 recCompleted, recRecorded>>

\* stopRecording, offered while isRecording: stop(), setIsRecording(false),
\* clearInterval
StopRecording ==
  /\ recOpen /\ isRecording
  /\ recorder' = "inactive"
  /\ recStopEvent' = TRUE
  /\ isRecording' = FALSE
  /\ recTimer' = FALSE
  /\ recRecorded' = TRUE
  /\ UNCHANGED <<nonRecVars, recOpen, recPermission, recCaptured, duration, recordingBlob,
                 isPlaying, playbackPosition, recCompleted>>

\* mediaRecorder.onstop: setRecordingBlob(audioBlob)
RecorderStopped ==
  /\ recStopEvent
  /\ recStopEvent' = FALSE
  /\ recordingBlob' = TRUE
  /\ UNCHANGED <<nonRecVars, recOpen, recPermission, recorder, recCaptured, recTimer,
                 isRecording, duration, isPlaying, playbackPosition, recCompleted,
                 recRecorded>>

\* playRecording: pause when playing, play otherwise; the audio reports its
\* position and its end
PlayRecording ==
  /\ recOpen /\ recordingBlob /\ ~isRecording
  /\ isPlaying' = ~isPlaying
  /\ \E position \in {0, 1} : playbackPosition' = position
  /\ UNCHANGED <<nonRecVars, recOpen, recPermission, recorder, recCaptured, recStopEvent,
                 recTimer, isRecording, duration, recordingBlob, recCompleted, recRecorded>>

\* the discard button: setRecordingBlob(null)
DiscardRecording ==
  /\ recOpen /\ recordingBlob
  /\ recordingBlob' = FALSE
  /\ UNCHANGED <<nonRecVars, recOpen, recPermission, recorder, recCaptured, recStopEvent,
                 recTimer, isRecording, duration, isPlaying, playbackPosition, recCompleted,
                 recRecorded>>

\* handleSave: if (!recordingBlob) return; onRecordingComplete(file, duration);
\* onClose(), after which the parent sets open to false
HandleSave ==
  /\ recOpen /\ recordingBlob
  /\ recCompleted' = IF recordingBlob THEN "blob" ELSE "no blob"
  /\ recOpen' = FALSE
  /\ Cleanup(recCaptured)
  /\ UNCHANGED <<nonRecVars, recPermission, recCaptured, recRecorded>>

\* the dialog is closed (close button, backdrop, escape): open becomes false
\* and the cleanup of the effect runs
RecorderClosed ==
  /\ recOpen
  /\ recOpen' = FALSE
  /\ Cleanup(recCaptured)
  /\ UNCHANGED <<nonRecVars, recPermission, recCaptured, recCompleted, recRecorded>>

RecNext ==
  \/ RecorderOpened
  \/ PermissionGranted
  \/ PermissionDenied
  \/ StartRecording
  \/ TimerFires
  \/ StopRecording
  \/ RecorderStopped
  \/ PlayRecording
  \/ DiscardRecording
  \/ HandleSave
  \/ RecorderClosed

InitRec == RecInit /\ ChatIdle /\ TitleIdle /\ VoiceIdle /\ LikeIdle /\ SvcIdle /\ FactoryIdle
           /\ IpcIdle /\ CtxIdle /\ ExIdle /\ EcIdle /\ AiIdle /\ AuthIdle
           /\ DraftIdle

SpecRec == InitRec /\ [][RecNext]_vars

\* onRecordingComplete is invoked with a blob, and a blob exists only after a
\* recording was started and then stopped
BlobIsARecording ==
  /\ recCompleted # "no blob"
  /\ recordingBlob => recRecorded

\* C28: onRecordingComplete is invoked only when a recorded blob exists, a
\* blob exists only after a recording was started and then stopped, and
\* whenever the dialog is closed, also while a recording is in progress, the
\* media recorder is stopped, the timer is cleared and isRecording, duration,
\* recordingBlob, isPlaying and playbackPosition are back at their initial
\* values.
C28_RecorderClosesClean ==
  /\ BlobIsARecording
  /\ ~recOpen =>
       /\ recorder # "recording"
       /\ ~recTimer
       /\ ~isRecording /\ duration = 0 /\ ~recordingBlob /\ ~isPlaying /\ playbackPosition = 0

\* what does hold of the closed dialog: the timer is cleared and every state
\* but recordingBlob is at its initial value
ClosedRecorderIsReset ==
  /\ BlobIsARecording
  /\ ~recOpen => (~recTimer /\ ~isRecording /\ duration = 0 /\ ~isPlaying /\ playbackPosition = 0)

(***************************************************************************)
(* CreateEntryPage: the draft entry                                        *)
(***************************************************************************)
\* the page is mounted and its effect has called createEntry(..., isDraft)
DraftInit ==
  /\ ceDraft = "none"
  /\ ceCreate = "pending"
  /\ ceEntryId = FALSE
  /\ ceVoiceNotes = 0
  /\ cePage = "open"
  /\ ceDelete = "not called"
  /\ ceLoading = FALSE
  /\ ceError = "none"
  /\ ceTitle = ""
  /\ ceSavedTitle = ""

\* the page is mounted: its handlers can run and its state can be set
Mounted == cePage \notin {"cancelled", "submitted"}

\* the insert of the draft reaches the database
DraftInserted ==
  /\ ceCreate = "pending"
  /\ ceDraft' = "draft"
  /\ ceCreate' = "inserted"
  /\ UNCHANGED <<nonDraftVars, ceEntryId, ceVoiceNotes, cePage, ceDelete, ceLoading, ceError,
              ceTitle, ceSavedTitle>>

\* createEntry returns an error: it is logged and entryId stays null
DraftRefused ==
  /\ ceCreate = "pending"
  /\ ceCreate' = "refused"
  /\ UNCHANGED <<nonDraftVars, ceDraft, ceEntryId, ceVoiceNotes, cePage, ceDelete, ceLoading, ceError,
              ceTitle, ceSavedTitle>>

\* createEntry returns the draft: setEntryId(data.id), which does nothing once
\* the page is left
DraftAnswered ==
  /\ ceCreate = "inserted"
  /\ ceCreate' = "answered"
  /\ ceEntryId' = Mounted
  /\ UNCHANGED <<nonDraftVars, ceDraft, ceVoiceNotes, cePage, ceDelete, ceLoading, ceError,
              ceTitle, ceSavedTitle>>

\* handleRecordingComplete: setError(null), and createVoiceNote for the draft
\* succeeds
DraftVoiceNoteCreated ==
  /\ cePage = "open" /\ ceEntryId
  /\ ceVoiceNotes < MaxVoiceNotes
  /\ ceVoiceNotes' = ceVoiceNotes + 1
  /\ ceError' = "none"
  /\ UNCHANGED <<nonDraftVars, ceDraft, ceCreate, ceEntryId, cePage, ceDelete, ceLoading, ceTitle, ceSavedTitle>>

\* handleRecordingComplete throws, for want of an entryId or because
\* createVoiceNote returned an error: the message is shown
DraftVoiceNoteFailed ==
  /\ cePage = "open"
  /\ ceError' = IF ceEntryId THEN "Failed to save voice note" ELSE "entry ID not found"
  /\ UNCHANGED <<nonDraftVars, ceDraft, ceCreate, ceEntryId, ceVoiceNotes, cePage, ceDelete, ceLoading, ceTitle, ceSavedTitle>>

\* handleCancel: deleteEntry when entryId is set, then navigate('/entries')
HandleCancel ==
  /\ cePage = "open"
  /\ cePage' = IF ceEntryId THEN "deleteEntry" ELSE "cancelled"
  /\ UNCHANGED <<nonDraftVars, ceDraft, ceCreate, ceEntryId, ceVoiceNotes, ceDelete, ceLoading, ceError,
                 ceTitle, ceSavedTitle>>

\* what deleteEntry can have done when it returns: the entry and its voice
\* notes deleted; the entry deleted and voice notes left (their listing or the
\* deletion of one failed); nothing, when the entries row could not be deleted
DeleteEntryOutcomes ==
  {"deleted", "refused"} \cup (IF ceVoiceNotes > 0 THEN {"voice notes left"} ELSE {})

\* deleteEntry returns; its result is not read and the page navigates away
CancelDeleteReturns ==
  /\ cePage = "deleteEntry"
  /\ \E done \in DeleteEntryOutcomes :
       /\ ceDelete' = done
       /\ ceDraft' = IF done = "refused" THEN ceDraft ELSE "deleted"
       /\ ceVoiceNotes' = IF done = "deleted" THEN 0 ELSE ceVoiceNotes
  /\ cePage' = "cancelled"
  /\ UNCHANGED <<nonDraftVars, ceCreate, ceEntryId, ceLoading, ceError, ceTitle, ceSavedTitle>>

\* handleSubmit: setLoading(true), setError(null); without an entryId it
\* throws, and the catch shows the error and clears loading
HandleSubmit ==
  /\ cePage = "open"
  /\ cePage' = IF ceEntryId THEN "updateEntry" ELSE "open"
  /\ ceLoading' = ceEntryId
  /\ ceError' = IF ceEntryId THEN "none" ELSE "entry ID not found"
  /\ UNCHANGED <<nonDraftVars, ceDraft, ceCreate, ceEntryId, ceVoiceNotes, ceDelete, ceTitle, ceSavedTitle>>

\* updateEntry(entryId, ..., voiceNotes, false) succeeds: navigate('/entries')
SubmitSucceeds ==
  /\ cePage = "updateEntry"
  /\ ceDraft' = "final"
  /\ ceSavedTitle' = ceTitle
  /\ cePage' = "submitted"
  /\ UNCHANGED <<nonDraftVars, ceCreate, ceEntryId, ceVoiceNotes, ceDelete, ceLoading, ceError,
                 ceTitle>>

\* updateEntry returns an error: it is shown and the page stays
SubmitFails ==
  /\ cePage = "updateEntry"
  /\ cePage' = "open"
  /\ ceLoading' = FALSE
  /\ ceError' = "Failed to create entry"
  /\ UNCHANGED <<nonDraftVars, ceDraft, ceCreate, ceEntryId, ceVoiceNotes, ceDelete, ceTitle, ceSavedTitle>>

\* what the title field can hold once trimmed
DraftTitles == {"", "Trip", "Trip Day"}

\* the user types in the title field: setTitle
DraftTitleTyped ==
  /\ cePage = "open"
  /\ \E typed \in DraftTitles : typed # ceTitle /\ ceTitle' = typed
  /\ UNCHANGED <<nonDraftVars, ceDraft, ceCreate, ceEntryId, ceVoiceNotes, cePage, ceDelete,
                 ceLoading, ceError, ceSavedTitle>>

DraftNext ==
  \/ DraftInserted
  \/ DraftRefused
  \/ DraftAnswered
  \/ DraftVoiceNoteCreated
  \/ DraftVoiceNoteFailed
  \/ DraftTitleTyped
  \/ HandleCancel
  \/ CancelDeleteReturns
  \/ HandleSubmit
  \/ SubmitSucceeds
  \/ SubmitFails

InitDraft == DraftInit /\ ChatIdle /\ TitleIdle /\ VoiceIdle /\ LikeIdle /\ SvcIdle
             /\ FactoryIdle /\ IpcIdle /\ CtxIdle /\ ExIdle /\ EcIdle /\ AiIdle /\ AuthIdle
             /\ RecIdle

SpecDraft == InitDraft /\ [][DraftNext]_vars

\* after a successful submit the entry exists and is not a draft
SubmittedEntryIsFinal == cePage = "submitted" => (ceDraft = "final" /\ ceSavedTitle = ceTitle)

\* C29: after the user has cancelled the create-entry page the draft entry the
\* page created does not exist, nor do its voice notes, however the response of
\* the draft creation and the Cancel click interleave; and after a successful
\* submit the entry exists with isDraft = false.
C29_CancelRemovesDraft ==
  /\ cePage = "cancelled" => (ceDraft # "draft" /\ ceVoiceNotes = 0)
  /\ SubmittedEntryIsFinal

\* what does hold: the draft and its voice notes are gone when handleCancel had
\* the entry id and deleteEntry deleted everything
CancelRemovesDraftWhenDeleted ==
  /\ (cePage = "cancelled" /\ ceDelete = "deleted") => (ceDraft = "deleted" /\ ceVoiceNotes = 0)
  /\ SubmittedEntryIsFinal


(***************************************************************************)
(* The main process: loadEnvironmentVariables and the saved preferences    *)
(***************************************************************************)
\* const requiredVars = ['SUPABASE_URL', 'SUPABASE_ANON_KEY']
requiredVars == {"SUPABASE_URL", "SUPABASE_ANON_KEY"}

\* the .env file the application is installed with
InstalledEnvFile ==
  EnvContent(<< <<"SUPABASE_URL", "https://project.supabase.co">>,
                <<"SUPABASE_ANON_KEY", "anon-key">>,
                <<"DEFAULT_AI_PROVIDER", "deepseek">> >>)

\* process.env of a main process that has not read the .env file yet
FreshProcessEnv == [k \in EnvKeys \cup requiredVars |-> Undefined]

RECURSIVE DotenvConfig(_, _)
\* dotenv.config({ path, override: true }): every line key="value" of the file
\* sets process.env[key], and a key the file does not name is left alone
DotenvConfig(environment, lines) ==
  IF lines = <<>> THEN environment
  ELSE DotenvConfig([environment EXCEPT ![Head(lines)[1]] = Head(lines)[3]], Tail(lines))

\* loadEnvironmentVariables: false without a file, and false when a required
\* variable is missing from process.env after the file was loaded
loadEnvironmentVariables(environment, file) ==
  /\ file # NoEnvFile
  /\ LET missingVars == {varName \in requiredVars : ~Truthy(DotenvConfig(environment, file)[varName])}
     IN missingVars = {}

\* the application was started from the installed .env file, which passed the
\* check, and no update has been sent yet
EnvInit ==
  /\ ipcQueue = <<>>
  /\ processEnv = DotenvConfig(FreshProcessEnv, InstalledEnvFile)
  /\ envFile = InstalledEnvFile
  /\ mainWindow \in BOOLEAN
  /\ rendererGot = <<>>
  /\ ipcPc = "idle"
  /\ ipcCur = <<>>
  /\ lastUpdate = <<>>
  /\ updates = 0

InitEnv == EnvInit /\ ChatIdle /\ TitleIdle /\ VoiceIdle /\ LikeIdle /\ SvcIdle /\ FactoryIdle /\ CtxIdle
           /\ ExIdle /\ EcIdle /\ AiIdle /\ AuthIdle /\ RecIdle /\ DraftIdle

SpecEnv == InitEnv /\ [][IpcNext]_vars

\* the .env file passes the check of a main process that starts from it
EnvFilePasses == loadEnvironmentVariables(FreshProcessEnv, envFile)

\* C30: an env file that passes the required-variable check of the main process
\* (SUPABASE_URL and SUPABASE_ANON_KEY present) before a step of the
\* update-env-vars handler still passes it after the step: saving preferences
\* never removes the backend URL or key from the file.
C30_EnvFileKeepsRequired == [][EnvFilePasses => EnvFilePasses']_vars

\* what does hold: process.env of the running main process keeps the required
\* variables, the handler setting only the keys of the message; and the file is
\* left as it was by every step other than a successful write
RunningProcessKeepsRequired ==
  /\ [](\A varName \in requiredVars : Truthy(processEnv[varName]))
  /\ [][(EnvFilePasses /\ ~EnvFilePasses') =>
          (ipcPc = "write" /\ envFile' = EnvContent(ipcCur))]_vars

====
